---------------------------- MODULE Spec2Model ----------------------------
(***************************************************************************)
(* traductor-web: the content-transformation proxy pipeline.               *)
(*                                                                         *)
(* One inbound request is followed through one of four route handlers:     *)
(*   "translate"  src/app/api/translate/route.ts  (full page, DeepL)       *)
(*   "reader"     src/unnamed/part_004            (reader mode, DeepL)     *)
(*   "pdf"        src/app/api/pdf-text/route.ts + src/lib/pdf.ts           *)
(*   "proxy"      src/unnamed/part_003            (asset proxy)            *)
(* Every action is one synchronous stretch of a handler, from one await to *)
(* the next.  Strings are tuples of one-character strings.                 *)
(***************************************************************************)
EXTENDS Integers, Sequences, FiniteSets, TLC

VARIABLES
    route,        \* which handler serves the request
    rawUrl,       \* searchParams.get('url'): [def, v]
    authKey,      \* process.env.DEEPL_AUTH_KEY is set
    pc,           \* position of the handler
    status,       \* status of the Response returned (0: none yet)
    message,      \* body of an error Response / kind of the success body
    headers,      \* Content-Type and Cache-Control of the Response
    fetches,      \* outbound fetches of the source document started
    timer,        \* the setTimeout of fetchHtmlWithLimits
    aborted,      \* controller.signal.aborted
    upstream,     \* status line and headers of the upstream response
    total,        \* let total
    chunks,       \* const chunks: byteLength of every chunk pushed
    reads,        \* reader.read() calls made
    decodes,      \* pdfParse calls made
    extracted,    \* extracted.text, the text pdfParse resolved with
    payload,      \* the JSON payload of a successful PDF extraction
    data,         \* node.data of every text node of the loaded document
    doc,          \* the parsed tree ($)
    candidates,   \* const candidates of translateTextNodes
    batchStart,   \* let i of the batch loop
    inflight,     \* texts of the translation call awaiting its response
    calls,        \* translation-service calls issued
    answer,       \* the service's response to the latest call, with that call's
                  \* number, kind ("batch" | "title") and input count
    writeLog,     \* every "entry.node.data = ..." executed, in order
    gHost,        \* host-guard harness: the hostname classified
    gGuard,       \* host-guard harness: which guard
    gResult,      \* host-guard harness: the guard's answer
    gPc,          \* host-guard harness: "idle" | "ready" | "done"
    uFn,          \* URL-rewriting harness: the function applied
    uBase,        \* URL-rewriting harness: the base URL (origin page or stylesheet)
    uValue,       \* URL-rewriting harness: the attribute value or text given
    uResult,      \* URL-rewriting harness: what the function returned
    uPc,          \* URL-rewriting harness: "idle" | "ready" | "done"
    xDoc,         \* reader-extraction harness: the parsed source document
    xResult,      \* reader-extraction harness: the ReaderDocument returned
    xPc,          \* reader-extraction harness: "idle" | "ready" | "done"
    zHtml,        \* reader-content harness: the content extraction returned
    zBase,        \* reader-content harness: the URL of the page
    zArticle,     \* reader-content harness: $('article').html() after the rewriting
    zOnce,        \* reader-content harness: contentHtml of the response
    zTwice,       \* reader-content harness: the sanitizer applied to zOnce
    zPc,          \* reader-content harness: "idle" | "ready" | "rewritten" | "responded" | "twice" | "failed"
    lAnchors,     \* related-links harness: the anchors of the page, in document order
    lLinks,       \* related-links harness: what extractRelevantLinks returned
    lPc,          \* related-links harness: "idle" | "ready" | "done"
    cMounted,     \* translated-page client: the component is mounted
    cApiUrl,      \* translated-page client: apiUrl of the last render
    cRequests,    \* translated-page client: one entry per run of the effect
    cResult,      \* translated-page client: the result state
    cError        \* translated-page client: the error state

pipeVars == <<route, rawUrl, authKey, pc, status, message, headers, fetches, timer, aborted,
              upstream, total, chunks, reads, decodes, extracted, payload, data, doc,
              candidates, batchStart, inflight, calls, answer, writeLog>>
guardVars == <<gHost, gGuard, gResult, gPc>>
urlVars == <<uFn, uBase, uValue, uResult, uPc>>
readerVars == <<xDoc, xResult, xPc>>
tailVars == <<zHtml, zBase, zArticle, zOnce, zTwice, zPc>>
linkVars == <<lAnchors, lLinks, lPc>>
clientVars == <<cMounted, cApiUrl, cRequests, cResult, cError>>
vars == <<pipeVars, guardVars, urlVars, readerVars, tailVars, linkVars, clientVars>>

---------------------------------------------------------------------------
(* Strings                                                                 *)

UpperChars == <<"A", "B", "C", "D", "E", "F", "G", "H", "I", "J", "K", "L", "M", "N", "O", "P", "Q", "R", "S", "T", "U", "V", "W", "X", "Y", "Z">>
LowerChars == <<"a", "b", "c", "d", "e", "f", "g", "h", "i", "j", "k", "l", "m", "n", "o", "p", "q", "r", "s", "t", "u", "v", "w", "x", "y", "z">>
DigitChars == <<"0", "1", "2", "3", "4", "5", "6", "7", "8", "9">>

InSeq(c, s) == \E k \in 1..Len(s) : s[k] = c

\* String.prototype.toLowerCase, one character
LowerChar(c) ==
    IF InSeq(c, UpperChars)
    THEN LowerChars[CHOOSE k \in 1..Len(UpperChars) : UpperChars[k] = c]
    ELSE c

toLowerCase(s) == [k \in 1..Len(s) |-> LowerChar(s[k])]

startsWith(s, p) == Len(s) >= Len(p) /\ SubSeq(s, 1, Len(p)) = p

endsWith(s, p) == Len(s) >= Len(p) /\ SubSeq(s, Len(s) - Len(p) + 1, Len(s)) = p

\* s.replace(/[...]/g, ''): s without the characters of the set drop
RECURSIVE removeChars(_, _)
removeChars(s, drop) ==
    IF s = <<>> THEN <<>>
    ELSE (IF Head(s) \in drop THEN <<>> ELSE <<Head(s)>>) \o removeChars(Tail(s), drop)

isDigit(c) == InSeq(c, DigitChars)

\* String(n) of a non-negative integer
RECURSIVE numberToString(_)
numberToString(n) ==
    IF n < 10 THEN <<DigitChars[n + 1]>>
    ELSE numberToString(n \div 10) \o <<DigitChars[(n % 10) + 1]>>

\* String.prototype.includes
includes(s, p) == \E k \in 0..(Len(s) - Len(p)) : SubSeq(s, k + 1, k + Len(p)) = p

\* \s of a JavaScript regular expression and of String.prototype.trim
isSpace(c) == c \in {" ", "\t", "\n", "\r"}

\* JavaScript optional values: undefined/null is [def |-> FALSE]
Undefined == [def |-> FALSE, v |-> <<>>]
Str(s) == [def |-> TRUE, v |-> s]

---------------------------------------------------------------------------
(* Host guards                                                             *)

PRIVATE_HOSTS == {<<"l", "o", "c", "a", "l", "h", "o", "s", "t">>, <<":", ":", "1">>, <<"[", ":", ":", "1", "]">>}

\* /^172\.(1[6-9]|2\d|3[0-1])\./
matches172(s) ==
    /\ startsWith(s, <<"1", "7", "2", ".">>)
    /\ Len(s) >= 7
    /\ \/ s[5] = "1" /\ s[6] \in {"6", "7", "8", "9"}
       \/ s[5] = "2" /\ isDigit(s[6])
       \/ s[5] = "3" /\ s[6] \in {"0", "1"}
    /\ s[7] = "."

\* PRIVATE_IPV4_RANGES.some((range) => range.test(s)) of the page and PDF routes
PRIVATE_IPV4_RANGES(s) ==
    \/ startsWith(s, <<"1", "2", "7", ".">>)
    \/ startsWith(s, <<"1", "0", ".">>)
    \/ startsWith(s, <<"1", "9", "2", ".", "1", "6", "8", ".">>)
    \/ matches172(s)
    \/ startsWith(s, <<"1", "6", "9", ".", "2", "5", "4", ".">>)
    \/ startsWith(s, <<"0", ".">>)

\* isPrivateHost of the full-page and reader routes
isPrivateHost(hostname) ==
    LET normalized == toLowerCase(hostname)
    IN  IF normalized \in PRIVATE_HOSTS THEN TRUE
        ELSE IF PRIVATE_IPV4_RANGES(normalized) THEN TRUE
        ELSE FALSE

\* isPrivateHost of the PDF route
pdfIsPrivateHost(hostname) ==
    LET normalized == toLowerCase(hostname)
    IN  IF normalized \in PRIVATE_HOSTS THEN TRUE
        ELSE PRIVATE_IPV4_RANGES(normalized)

\* PRIVATE_IPV4_RANGES of the asset proxy: four ranges only
proxyPRIVATE_IPV4_RANGES(s) ==
    \/ startsWith(s, <<"1", "2", "7", ".">>)
    \/ startsWith(s, <<"1", "0", ".">>)
    \/ startsWith(s, <<"1", "9", "2", ".", "1", "6", "8", ".">>)
    \/ matches172(s)

\* PRIVATE_IPV6_PATTERNS = [/^fc/i, /^fd/i, /^fe[89ab]/i]
PRIVATE_IPV6_PATTERNS(s) ==
    LET l == toLowerCase(s)
    IN  \/ startsWith(l, <<"f", "c">>)
        \/ startsWith(l, <<"f", "d">>)
        \/ startsWith(l, <<"f", "e">>) /\ Len(l) >= 3 /\ l[3] \in {"8", "9", "a", "b"}

\* isBlockedHost of the asset proxy
isBlockedHost(hostname) ==
    LET normalized == toLowerCase(hostname)
        compact == removeChars(normalized, {"[", "]", ":"})
    IN  IF normalized \in PRIVATE_HOSTS THEN TRUE
        ELSE IF proxyPRIVATE_IPV4_RANGES(normalized) THEN TRUE
        ELSE PRIVATE_IPV6_PATTERNS(compact)

ALLOWED_HOSTS == {<<"e", "x", "a", "m", "p", "l", "e", ".", "c", "o", "m">>}

\* ALLOWED_HOST_PATTERNS = [/\.wikipedia\.org$/i, /\.wikimedia\.org$/i, /\.bbc\.com$/i]
ALLOWED_HOST_PATTERNS(s) ==
    LET l == toLowerCase(s)
    IN  \/ endsWith(l, <<".", "w", "i", "k", "i", "p", "e", "d", "i", "a", ".", "o", "r", "g">>)
        \/ endsWith(l, <<".", "w", "i", "k", "i", "m", "e", "d", "i", "a", ".", "o", "r", "g">>)
        \/ endsWith(l, <<".", "b", "b", "c", ".", "c", "o", "m">>)

\* isAllowedHost of the asset proxy
isAllowedHost(hostname) ==
    LET normalized == toLowerCase(hostname)
    IN  IF normalized \in ALLOWED_HOSTS THEN TRUE
        ELSE ALLOWED_HOST_PATTERNS(normalized)

Routes == {"translate", "reader", "pdf", "proxy"}

\* the host guard each route applies to parsedUrl.hostname
HostGuard(r, hostname) ==
    CASE r = "translate" -> isPrivateHost(hostname)
      [] r = "reader"    -> isPrivateHost(hostname)
      [] r = "pdf"       -> pdfIsPrivateHost(hostname)
      [] r = "proxy"     -> isBlockedHost(hostname)

---------------------------------------------------------------------------
(* new URL(rawUrl): scheme, then for http/https/ftp the host up to the path *)

indexOf(s, c) == IF InSeq(c, s) THEN CHOOSE k \in 1..Len(s) : s[k] = c /\ \A j \in 1..(k - 1) : s[j] # c ELSE 0

isSchemeChar(c) == InSeq(c, UpperChars) \/ InSeq(c, LowerChars) \/ isDigit(c) \/ c \in {"+", ".", "-"}

\* the index of the ":" ending a scheme, 0 when the string starts with none
schemeEnd(s) ==
    LET k == indexOf(s, ":")
    IN  IF /\ k > 1
           /\ InSeq(s[1], UpperChars) \/ InSeq(s[1], LowerChars)
           /\ \A j \in 1..(k - 1) : isSchemeChar(s[j])
        THEN k ELSE 0

RECURSIVE dropSlashes(_)
dropSlashes(s) == IF s # <<>> /\ Head(s) \in {"/", "\\"} THEN dropSlashes(Tail(s)) ELSE s

RECURSIVE takeHost(_)
takeHost(s) ==
    IF s = <<>> \/ Head(s) \in {"/", "\\", "?", "#"} THEN <<>>
    ELSE <<Head(s)>> \o takeHost(Tail(s))

SpecialSchemes == {<<"h", "t", "t", "p">>, <<"h", "t", "t", "p", "s">>, <<"f", "t", "p">>, <<"w", "s">>, <<"w", "s", "s">>, <<"f", "i", "l", "e">>}

InvalidUrl == [ok |-> FALSE, protocol |-> <<>>, hostname |-> <<>>]

\* new URL(raw) with no base: throws (ok = FALSE) for a string without a scheme, and
\* for an http/https/ftp URL without a host or with a space in it.  The inputs
\* carry no credentials and no port.
ParseUrl(raw) ==
    LET k == schemeEnd(raw)
        scheme == toLowerCase(SubSeq(raw, 1, k - 1))
        host == takeHost(dropSlashes(SubSeq(raw, k + 1, Len(raw))))
    IN  IF k = 0 THEN InvalidUrl
        ELSE IF scheme \notin SpecialSchemes
             THEN [ok |-> TRUE, protocol |-> scheme \o <<":">>, hostname |-> <<>>]
        ELSE IF host = <<>> \/ InSeq(" ", host) THEN InvalidUrl
        ELSE [ok |-> TRUE, protocol |-> scheme \o <<":">>, hostname |-> toLowerCase(host)]

HttpProtocols == {<<"h", "t", "t", "p", ":">>, <<"h", "t", "t", "p", "s", ":">>}

---------------------------------------------------------------------------
(* Requests                                                                *)

MetaDataUrl == <<"h", "t", "t", "p", ":", "/", "/", "1", "6", "9", ".", "2", "5", "4", ".", "1", "6", "9", ".", "2", "5", "4", "/", "l", "a", "t", "e", "s", "t", "/", "m", "e", "t", "a", "-", "d", "a", "t", "a">>
NotAUrl == <<"n", "o", "t", " ", "a", " ", "u", "r", "l">>
FtpUrl == <<"f", "t", "p", ":", "/", "/", "e", "x", "a", "m", "p", "l", "e", ".", "c", "o", "m", "/", "f", "i", "l", "e">>
JavascriptUrl == <<"j", "a", "v", "a", "s", "c", "r", "i", "p", "t", ":", "a", "l", "e", "r", "t", "(", "1", ")">>
LocalhostUrl == <<"H", "T", "T", "P", ":", "/", "/", "L", "O", "C", "A", "L", "H", "O", "S", "T", "/", "a", "d", "m", "i", "n">>
ExampleUrl == <<"h", "t", "t", "p", "s", ":", "/", "/", "e", "x", "a", "m", "p", "l", "e", ".", "c", "o", "m">>
WikipediaUrl == <<"h", "t", "t", "p", "s", ":", "/", "/", "e", "n", ".", "w", "i", "k", "i", "p", "e", "d", "i", "a", ".", "o", "r", "g", "/", "w", "i", "k", "i", "/", "T", "L", "A">>
FdWikipediaUrl == <<"h", "t", "t", "p", "s", ":", "/", "/", "f", "d", ".", "w", "i", "k", "i", "p", "e", "d", "i", "a", ".", "o", "r", "g", "/", "w", "i", "k", "i", "/">>
NewsUrl == <<"h", "t", "t", "p", "s", ":", "/", "/", "n", "e", "w", "s", ".", "t", "e", "s", "t", "/", "r", "e", "p", "o", "r", "t", ".", "p", "d", "f">>

\* the url parameter of the request: absent, empty, or one of the strings above
RawUrls ==
    { Undefined, Str(<<>>) }
    \cup { Str(u) : u \in { NotAUrl, FtpUrl, JavascriptUrl, MetaDataUrl, LocalhostUrl,
                            ExampleUrl, WikipediaUrl, FdWikipediaUrl, NewsUrl } }

\* return new Response(msg, { status: st })
\* the headers of new Response(text, { status }): the runtime's content type for
\* a string body, no Cache-Control
TextHeaders == [contentType |-> "text/plain;charset=UTF-8", cacheControl |-> ""]

NoHeaders == [contentType |-> "", cacheControl |-> ""]

\* the headers of Response.json(payload)
JsonHeaders == [contentType |-> "application/json", cacheControl |-> ""]

\* headers: { 'Content-Type': 'text/html; charset=utf-8' }
HtmlHeaders == [contentType |-> "text/html; charset=utf-8", cacheControl |-> ""]

Respond(st, msg) ==
    /\ pc' = "responded"
    /\ status' = st
    /\ message' = msg
    /\ headers' = TextHeaders

\* new Response(body, { status, headers })
RespondWith(st, body, h) ==
    /\ pc' = "responded"
    /\ status' = st
    /\ message' = body
    /\ headers' = h

\* The checks every GET makes on the url parameter before anything else; 0 when
\* the request passes.  paramsText is the route's message for a missing url.
\* the validation with the host guard left out
ValidationNoHostCheck(r, raw) ==
    LET p == ParseUrl(raw.v)
    IN  IF ~raw.def \/ raw.v = <<>>
        THEN [status |-> 400,
              text |-> IF r = "proxy" THEN <<"F", "a", "l", "t", "a", " ", "e", "l", " ", "p", "a", "r", "a", "m", "e", "t", "r", "o", " ", "u", "r", "l", ".">> ELSE <<"P", "a", "r", "a", "m", "e", "t", "r", "o", "s", " ", "i", "n", "v", "a", "l", "i", "d", "o", "s", ".">>]
        ELSE IF ~p.ok THEN [status |-> 400, text |-> <<"U", "R", "L", " ", "i", "n", "v", "a", "l", "i", "d", "a", ".">>]
        ELSE IF p.protocol \notin HttpProtocols
             THEN [status |-> 400, text |-> <<"S", "o", "l", "o", " ", "s", "e", " ", "p", "e", "r", "m", "i", "t", "e", "n", " ", "U", "R", "L", "s", " ", "h", "t", "t", "p", "/", "h", "t", "t", "p", "s", ".">>]
        ELSE IF r = "proxy" /\ ~isAllowedHost(p.hostname)
             THEN [status |-> 403,
                   text |-> <<"H", "o", "s", "t", " ", "n", "o", " ", "p", "e", "r", "m", "i", "t", "i", "d", "o", ".", " ", "/", "a", "p", "i", "/", "p", "r", "o", "x", "y", " ", "s", "o", "l", "o", " ", "p", "e", "r", "m", "i", "t", "e", " ", "h", "o", "s", "t", "s", " ", "e", "n", " ", "a", "l", "l", "o", "w", "l", "i", "s", "t", ".">>]
        ELSE [status |-> 0, text |-> <<>>]

\* the validation with the allow-list consulted before the host guard
ValidationAllowFirst(r, raw) ==
    LET p == ParseUrl(raw.v)
    IN  IF ~raw.def \/ raw.v = <<>>
        THEN [status |-> 400,
              text |-> IF r = "proxy" THEN <<"F", "a", "l", "t", "a", " ", "e", "l", " ", "p", "a", "r", "a", "m", "e", "t", "r", "o", " ", "u", "r", "l", ".">> ELSE <<"P", "a", "r", "a", "m", "e", "t", "r", "o", "s", " ", "i", "n", "v", "a", "l", "i", "d", "o", "s", ".">>]
        ELSE IF ~p.ok THEN [status |-> 400, text |-> <<"U", "R", "L", " ", "i", "n", "v", "a", "l", "i", "d", "a", ".">>]
        ELSE IF p.protocol \notin HttpProtocols
             THEN [status |-> 400, text |-> <<"S", "o", "l", "o", " ", "s", "e", " ", "p", "e", "r", "m", "i", "t", "e", "n", " ", "U", "R", "L", "s", " ", "h", "t", "t", "p", "/", "h", "t", "t", "p", "s", ".">>]
        ELSE IF r = "proxy" /\ ~isAllowedHost(p.hostname)
             THEN [status |-> 403,
                   text |-> <<"H", "o", "s", "t", " ", "n", "o", " ", "p", "e", "r", "m", "i", "t", "i", "d", "o", ".", " ", "/", "a", "p", "i", "/", "p", "r", "o", "x", "y", " ", "s", "o", "l", "o", " ", "p", "e", "r", "m", "i", "t", "e", " ", "h", "o", "s", "t", "s", " ", "e", "n", " ", "a", "l", "l", "o", "w", "l", "i", "s", "t", ".">>]
        ELSE IF HostGuard(r, p.hostname)
             THEN [status |-> 403, text |-> <<"H", "o", "s", "t", " ", "b", "l", "o", "q", "u", "e", "a", "d", "o", " ", "p", "o", "r", " ", "s", "e", "g", "u", "r", "i", "d", "a", "d", ".">>]
        ELSE [status |-> 0, text |-> <<>>]

Validation(r, raw) ==
    LET p == ParseUrl(raw.v)
    IN  IF ~raw.def \/ raw.v = <<>>
        THEN [status |-> 400,
              text |-> IF r = "proxy" THEN <<"F", "a", "l", "t", "a", " ", "e", "l", " ", "p", "a", "r", "a", "m", "e", "t", "r", "o", " ", "u", "r", "l", ".">> ELSE <<"P", "a", "r", "a", "m", "e", "t", "r", "o", "s", " ", "i", "n", "v", "a", "l", "i", "d", "o", "s", ".">>]
        ELSE IF ~p.ok THEN [status |-> 400, text |-> <<"U", "R", "L", " ", "i", "n", "v", "a", "l", "i", "d", "a", ".">>]
        ELSE IF p.protocol \notin HttpProtocols
             THEN [status |-> 400, text |-> <<"S", "o", "l", "o", " ", "s", "e", " ", "p", "e", "r", "m", "i", "t", "e", "n", " ", "U", "R", "L", "s", " ", "h", "t", "t", "p", "/", "h", "t", "t", "p", "s", ".">>]
        ELSE IF HostGuard(r, p.hostname)
             THEN [status |-> 403, text |-> <<"H", "o", "s", "t", " ", "b", "l", "o", "q", "u", "e", "a", "d", "o", " ", "p", "o", "r", " ", "s", "e", "g", "u", "r", "i", "d", "a", "d", ".">>]
        ELSE IF r = "proxy" /\ ~isAllowedHost(p.hostname)
             THEN [status |-> 403,
                   text |-> <<"H", "o", "s", "t", " ", "n", "o", " ", "p", "e", "r", "m", "i", "t", "i", "d", "o", ".", " ", "/", "a", "p", "i", "/", "p", "r", "o", "x", "y", " ", "s", "o", "l", "o", " ", "p", "e", "r", "m", "i", "t", "e", " ", "h", "o", "s", "t", "s", " ", "e", "n", " ", "a", "l", "l", "o", "w", "l", "i", "s", "t", ".">>]
        ELSE [status |-> 0, text |-> <<>>]

---------------------------------------------------------------------------
(* Limits, upstream responses and body streams                             *)

MAX_BYTES == 2 * 1024 * 1024

MAX_PDF_BYTES == 10 * 1024 * 1024

MAX_PDF_TEXT_CHARS == 60000

\* reader.read() calls one body stream may see
MaxReads == 3

\* response.headers.get('content-length'): absent, a number, or text that
\* Number() turns into NaN
ContentLengths ==
    { [kind |-> "absent", n |-> 0],
      [kind |-> "number", n |-> 500000],
      [kind |-> "number", n |-> MAX_PDF_BYTES],
      [kind |-> "number", n |-> MAX_PDF_BYTES + 1],
      [kind |-> "nan", n |-> 0] }

\* response.ok
IsOk(st) == st >= 200 /\ st <= 299

\* fetch(url, { redirect: 'follow' }): the host a redirect of the requested URL
\* leads to, Undefined when the requested host answers itself
RedirectTargets == {Undefined, Str(<<"l", "o", "c", "a", "l", "h", "o", "s", "t">>)}

\* what the upstream server can answer to the fetch of route r
Upstreams(r) ==
    [ status : {200, 404, 500},
      redirectedTo : RedirectTargets,
      contentLength : IF r = "proxy" THEN {[kind |-> "absent", n |-> 0]} ELSE ContentLengths,
      contentType : IF r = "proxy" THEN {"", "text/css; charset=utf-8", "TEXT/CSS", "image/png"} ELSE {""},
      body : IF r = "proxy" THEN {TRUE} ELSE BOOLEAN ]

NoUpstream == [status |-> 0, redirectedTo |-> Undefined, contentLength |-> [kind |-> "absent", n |-> 0],
               contentType |-> "", body |-> FALSE]

\* { done, value } of one reader.read()
ReadResults ==
    { [done |-> TRUE, hasValue |-> FALSE, byteLength |-> 0],
      [done |-> FALSE, hasValue |-> FALSE, byteLength |-> 0] }
    \cup { [done |-> FALSE, hasValue |-> TRUE, byteLength |-> n] :
             n \in {0, 1, 1024 * 1024, MAX_BYTES, 5 * 1024 * 1024} }

RECURSIVE Sum(_)
Sum(s) == IF s = <<>> THEN 0 ELSE Head(s) + Sum(Tail(s))

\* Buffer.concat(chunks).length
Buffered == Sum(chunks)

envVars == <<route, rawUrl, authKey>>
streamVars == <<upstream, total, chunks, reads>>
pdfVars == <<decodes, extracted, payload>>
trVars == <<data, doc, candidates, batchStart, inflight, calls, answer, writeLog>>

PageRoutes == {"translate", "reader"}

---------------------------------------------------------------------------
(* GET of the full-page and reader routes, up to the await of the fetch;   *)
(* fetchHtmlWithLimits                                                     *)

\* GET: the validation, then fetchHtmlWithLimits arms the timer and calls fetch
PageGET ==
    /\ route \in PageRoutes
    /\ pc = "start"
    /\ LET v == Validation(route, rawUrl)
       IN  IF v.status # 0
           THEN /\ Respond(v.status, v.text)
                /\ UNCHANGED <<fetches, timer>>
           ELSE /\ timer' = "armed"
                /\ fetches' = fetches + 1
                /\ pc' = "fetching"
                /\ UNCHANGED <<status, message, headers>>
    /\ UNCHANGED <<envVars, aborted, streamVars, pdfVars, trVars, guardVars, urlVars, readerVars, tailVars, linkVars, clientVars>>

\* an exception leaves fetchHtmlWithLimits through finally { clearTimeout } and
\* is caught by GET: 502 with the error's message
\* a throw that leaves the timer armed
HtmlThrowNoClear(msg) ==
    /\ timer' = timer
    /\ Respond(502, msg)

HtmlThrow(msg) ==
    /\ timer' = "cleared"
    /\ Respond(502, msg)

\* setTimeout(() => controller.abort(), 8_000) fires
TimerFires ==
    /\ timer = "armed"
    /\ timer' = "fired"
    /\ aborted' = TRUE
    /\ UNCHANGED <<envVars, pc, status, message, headers, fetches, streamVars, pdfVars, trVars, guardVars, urlVars, readerVars, tailVars, linkVars, clientVars>>

\* the aborted signal rejects the pending fetch or read
HtmlAborted ==
    /\ route \in PageRoutes
    /\ pc \in {"fetching", "streaming"}
    /\ aborted
    /\ HtmlThrow(<<"T", "h", "i", "s", " ", "o", "p", "e", "r", "a", "t", "i", "o", "n", " ", "w", "a", "s", " ", "a", "b", "o", "r", "t", "e", "d">>)
    /\ UNCHANGED <<envVars, fetches, aborted, streamVars, pdfVars, trVars, guardVars, urlVars, readerVars, tailVars, linkVars, clientVars>>

\* fetch rejects: the upstream is unreachable
HtmlFetchFails ==
    /\ route \in PageRoutes
    /\ pc = "fetching"
    /\ ~aborted
    /\ HtmlThrow(<<"f", "e", "t", "c", "h", " ", "f", "a", "i", "l", "e", "d">>)
    /\ UNCHANGED <<envVars, fetches, aborted, streamVars, pdfVars, trVars, guardVars, urlVars, readerVars, tailVars, linkVars, clientVars>>

\* fetch resolves: status check, body reader, first read()
HtmlResponse ==
    /\ route \in PageRoutes
    /\ pc = "fetching"
    /\ ~aborted
    /\ \E u \in Upstreams(route) :
         /\ upstream' = u
         /\ IF ~IsOk(u.status)
            THEN /\ HtmlThrow(<<"N", "o", " ", "s", "e", " ", "p", "u", "d", "o", " ", "c", "a", "r", "g", "a", "r", " ", "l", "a", " ", "U", "R", "L", ":", " ">> \o numberToString(u.status))
                 /\ UNCHANGED <<total, chunks, reads>>
            ELSE IF ~u.body
            THEN /\ HtmlThrow(<<"R", "e", "s", "p", "u", "e", "s", "t", "a", " ", "v", "a", "c", "i", "a">>)
                 /\ UNCHANGED <<total, chunks, reads>>
            ELSE /\ total' = 0
                 /\ chunks' = <<>>
                 /\ reads' = 1
                 /\ pc' = "streaming"
                 /\ UNCHANGED <<status, message, headers, timer>>
    /\ UNCHANGED <<envVars, fetches, aborted, pdfVars, trVars, guardVars, urlVars, readerVars, tailVars, linkVars, clientVars>>

\* one turn of the while (true) loop of fetchHtmlWithLimits
\* a size check that also refuses a body of exactly the ceiling
exceedsOrEquals(bytes) == bytes >= MAX_BYTES

\* total > MAX_BYTES
exceedsMaxBytes(bytes) == bytes > MAX_BYTES

HtmlRead ==
    /\ route \in PageRoutes
    /\ pc = "streaming"
    /\ ~aborted
    /\ \E r \in ReadResults :
         IF r.done
         THEN /\ timer' = "cleared"
              /\ pc' = "fetched"
              /\ UNCHANGED <<status, message, headers, total, chunks, reads>>
         ELSE IF ~r.hasValue
         THEN /\ reads < MaxReads
              /\ reads' = reads + 1
              /\ UNCHANGED <<pc, status, message, headers, timer, total, chunks>>
         ELSE /\ total' = total + r.byteLength
              /\ IF exceedsMaxBytes(total')
                 THEN /\ HtmlThrow(<<"E", "l", " ", "H", "T", "M", "L", " ", "e", "x", "c", "e", "d", "e", " ", "2", "M", "B", ".">>)
                      /\ UNCHANGED <<chunks, reads>>
                 ELSE /\ reads < MaxReads
                      /\ chunks' = Append(chunks, r.byteLength)
                      /\ reads' = reads + 1
                      /\ UNCHANGED <<pc, status, message, headers, timer>>
    /\ UNCHANGED <<envVars, fetches, aborted, upstream, pdfVars, trVars, guardVars, urlVars, readerVars, tailVars, linkVars, clientVars>>

---------------------------------------------------------------------------
(* PDF route: GET and extractPdfTextFromUrl                                *)

\* Text the PDF decoder can return, run-length encoded: <<[c, n], ...>> is n
\* times the character c, run after run; neighbouring runs differ in c.
Run(c, n) == [c |-> c, n |-> n]

PdfTexts ==
    { <<>>,
      <<Run(" ", 2), Run("a", 5), Run("\n", 1)>>,
      <<Run("a", MAX_PDF_TEXT_CHARS)>>,
      <<Run("a", MAX_PDF_TEXT_CHARS + 1)>>,
      <<Run("a", MAX_PDF_TEXT_CHARS - 2), Run("\r", 1), Run("\n", 1), Run("b", 1)>>,
      <<Run(" ", 3), Run("a", MAX_PDF_TEXT_CHARS), Run("\n", 2)>>,
      <<Run("a", 30000), Run("\r", 2), Run("\n", 1), Run("b", 40000)>> }

RECURSIVE runsLength(_)
runsLength(t) == IF t = <<>> THEN 0 ELSE Head(t).n + runsLength(Tail(t))

\* text.replace(/\r\n/g, '\n'): the last \r of a run of \r that meets a run of \n goes
RECURSIVE replaceCrLf(_)
replaceCrLf(t) ==
    IF t = <<>> THEN <<>>
    ELSE IF Len(t) >= 2 /\ t[1].c = "\r" /\ t[2].c = "\n"
    THEN (IF t[1].n > 1 THEN <<Run("\r", t[1].n - 1)>> ELSE <<>>) \o replaceCrLf(Tail(t))
    ELSE <<Head(t)>> \o replaceCrLf(Tail(t))

RECURSIVE trimStartRuns(_)
trimStartRuns(t) == IF t # <<>> /\ isSpace(Head(t).c) THEN trimStartRuns(Tail(t)) ELSE t

RECURSIVE trimEndRuns(_)
trimEndRuns(t) ==
    IF t # <<>> /\ isSpace(t[Len(t)].c) THEN trimEndRuns(SubSeq(t, 1, Len(t) - 1)) ELSE t

\* String.prototype.trim
trimRuns(t) == trimEndRuns(trimStartRuns(t))

\* text.slice(0, k)
RECURSIVE sliceRuns(_, _)
sliceRuns(t, k) ==
    IF t = <<>> \/ k <= 0 THEN <<>>
    ELSE IF Head(t).n >= k THEN <<Run(Head(t).c, k)>>
    ELSE <<Head(t)>> \o sliceRuns(Tail(t), k - Head(t).n)

\* extracted.text.replace(/\r\n/g, '\n').trim()
normalizePdfText(text) == trimRuns(replaceCrLf(text))

\* the PdfExtractionResult built from the decoder's text and the byte count
\* the result with the truncation flag taken from the text before normalization
PdfResultRawLength(text, bytes) ==
    LET normalizedText == normalizePdfText(text)
        truncated == runsLength(text) > MAX_PDF_TEXT_CHARS
    IN  [text |-> IF truncated THEN sliceRuns(normalizedText, MAX_PDF_TEXT_CHARS)
                  ELSE normalizedText,
         truncated |-> truncated,
         bytes |-> bytes]

PdfResult(text, bytes) ==
    LET normalizedText == normalizePdfText(text)
        truncated == runsLength(normalizedText) > MAX_PDF_TEXT_CHARS
    IN  [text |-> IF truncated THEN sliceRuns(normalizedText, MAX_PDF_TEXT_CHARS)
                  ELSE normalizedText,
         truncated |-> truncated,
         bytes |-> bytes]

NoPayload == [text |-> <<>>, truncated |-> FALSE, bytes |-> 0]

\* Number(response.headers.get('content-length') ?? 0) is finite and above the ceiling
\* a header check that never refuses
contentLengthIgnored(cl, max) == FALSE

contentLengthExceeds(cl, max) == cl.kind = "number" /\ cl.n > max

\* GET of the PDF route: the validation, then extractPdfTextFromUrl calls fetch
PdfGET ==
    /\ route = "pdf"
    /\ pc = "start"
    /\ LET v == Validation(route, rawUrl)
       IN  IF v.status # 0
           THEN /\ Respond(v.status, v.text)
                /\ UNCHANGED fetches
           ELSE /\ fetches' = fetches + 1
                /\ pc' = "fetching"
                /\ UNCHANGED <<status, message, headers>>
    /\ UNCHANGED <<envVars, timer, aborted, streamVars, pdfVars, trVars, guardVars, urlVars, readerVars, tailVars, linkVars, clientVars>>

\* fetch rejects
PdfFetchFails ==
    /\ route = "pdf"
    /\ pc = "fetching"
    /\ Respond(502, <<"f", "e", "t", "c", "h", " ", "f", "a", "i", "l", "e", "d">>)
    /\ UNCHANGED <<envVars, fetches, timer, aborted, streamVars, pdfVars, trVars, guardVars, urlVars, readerVars, tailVars, linkVars, clientVars>>

\* fetch resolves: status check, Content-Length check, body reader, first read()
PdfResponse ==
    /\ route = "pdf"
    /\ pc = "fetching"
    /\ \E u \in Upstreams(route) :
         /\ upstream' = u
         /\ IF ~IsOk(u.status)
            THEN /\ Respond(502, <<"N", "o", " ", "s", "e", " ", "p", "u", "d", "o", " ", "d", "e", "s", "c", "a", "r", "g", "a", "r", " ", "e", "l", " ", "P", "D", "F", ":", " ">> \o numberToString(u.status))
                 /\ UNCHANGED <<total, chunks, reads>>
            ELSE IF contentLengthExceeds(u.contentLength, MAX_PDF_BYTES)
            THEN /\ Respond(502, <<"E", "l", " ", "P", "D", "F", " ", "e", "x", "c", "e", "d", "e", " ", "1", "0", "M", "B", ".">>)
                 /\ UNCHANGED <<total, chunks, reads>>
            ELSE IF ~u.body
            THEN /\ Respond(502, <<"R", "e", "s", "p", "u", "e", "s", "t", "a", " ", "v", "a", "c", "i", "a", " ", "a", "l", " ", "d", "e", "s", "c", "a", "r", "g", "a", "r", " ", "P", "D", "F", ".">>)
                 /\ UNCHANGED <<total, chunks, reads>>
            ELSE /\ total' = 0
                 /\ chunks' = <<>>
                 /\ reads' = 1
                 /\ pc' = "streaming"
                 /\ UNCHANGED <<status, message, headers>>
    /\ UNCHANGED <<envVars, fetches, timer, aborted, pdfVars, trVars, guardVars, urlVars, readerVars, tailVars, linkVars, clientVars>>

\* one turn of the while (true) loop of extractPdfTextFromUrl; at done the
\* buffer is handed to pdfParse
PdfRead ==
    /\ route = "pdf"
    /\ pc = "streaming"
    /\ \E r \in ReadResults :
         IF r.done
         THEN /\ decodes' = decodes + 1
              /\ pc' = "decoding"
              /\ UNCHANGED <<status, message, headers, total, chunks, reads>>
         ELSE IF ~r.hasValue
         THEN /\ reads < MaxReads
              /\ reads' = reads + 1
              /\ UNCHANGED <<pc, status, message, headers, total, chunks, decodes>>
         ELSE /\ total' = total + r.byteLength
              /\ IF total' > MAX_PDF_BYTES
                 THEN /\ Respond(502, <<"E", "l", " ", "P", "D", "F", " ", "e", "x", "c", "e", "d", "e", " ", "1", "0", "M", "B", ".">>)
                      /\ UNCHANGED <<chunks, reads, decodes>>
                 ELSE /\ reads < MaxReads
                      /\ chunks' = Append(chunks, r.byteLength)
                      /\ reads' = reads + 1
                      /\ UNCHANGED <<pc, status, message, headers, decodes>>
    /\ UNCHANGED <<envVars, fetches, timer, aborted, upstream, extracted, payload, trVars,
                   guardVars, urlVars, readerVars, tailVars, linkVars, clientVars>>

\* pdfParse resolves: the payload is returned with Response.json (status 200)
PdfDecoded ==
    /\ route = "pdf"
    /\ pc = "decoding"
    /\ \E text \in PdfTexts :
         /\ extracted' = text
         /\ payload' = PdfResult(text, total)
         /\ RespondWith(200, <<"j", "s", "o", "n">>, JsonHeaders)
    /\ UNCHANGED <<envVars, fetches, timer, aborted, streamVars, decodes, trVars, guardVars, urlVars, readerVars, tailVars, linkVars, clientVars>>

\* pdfParse rejects: the bytes are no PDF
PdfDecodeFails ==
    /\ route = "pdf"
    /\ pc = "decoding"
    /\ Respond(502, <<"I", "n", "v", "a", "l", "i", "d", " ", "P", "D", "F", " ", "s", "t", "r", "u", "c", "t", "u", "r", "e">>)
    /\ UNCHANGED <<envVars, fetches, timer, aborted, streamVars, pdfVars, trVars, guardVars, urlVars, readerVars, tailVars, linkVars, clientVars>>

---------------------------------------------------------------------------
(* Asset proxy: GET                                                        *)

\* GET of the asset proxy: the validation, then fetch
ProxyGET ==
    /\ route = "proxy"
    /\ pc = "start"
    /\ LET v == Validation(route, rawUrl)
       IN  IF v.status # 0
           THEN /\ Respond(v.status, v.text)
                /\ UNCHANGED fetches
           ELSE /\ fetches' = fetches + 1
                /\ pc' = "fetching"
                /\ UNCHANGED <<status, message, headers>>
    /\ UNCHANGED <<envVars, timer, aborted, streamVars, pdfVars, trVars, guardVars, urlVars, readerVars, tailVars, linkVars, clientVars>>

\* fetch rejects
ProxyFetchFails ==
    /\ route = "proxy"
    /\ pc = "fetching"
    /\ Respond(502, <<"N", "o", " ", "s", "e", " ", "p", "u", "d", "o", " ", "d", "e", "s", "c", "a", "r", "g", "a", "r", " ", "e", "l", " ", "r", "e", "c", "u", "r", "s", "o", " ", "r", "e", "m", "o", "t", "o", ".">>)
    /\ UNCHANGED <<envVars, fetches, timer, aborted, streamVars, pdfVars, trVars, guardVars, urlVars, readerVars, tailVars, linkVars, clientVars>>

\* upstream.body, and rewriteCssUrls(await upstream.text(), parsed)
UpstreamBody == <<"u", "p", "s", "t", "r", "e", "a", "m", " ", "b", "o", "d", "y">>

RewrittenCss == <<"r", "e", "w", "r", "i", "t", "t", "e", "n", " ", "c", "s", "s">>

\* the same headers with a private cache policy
proxyHeadersPrivate(u) ==
    [contentType |-> IF u.contentType = "" THEN "application/octet-stream" ELSE u.contentType,
     cacheControl |-> "private"]

\* the headers GET builds: the upstream content type, or the default for a
\* response without one, and the cache policy
proxyHeaders(u) ==
    [contentType |-> IF u.contentType = "" THEN "application/octet-stream" ELSE u.contentType,
     cacheControl |-> "public, s-maxage=3600, stale-while-revalidate=86400"]

\* contentType.toLowerCase().includes('text/css')
isStylesheet(contentType) == contentType \in {"text/css; charset=utf-8", "TEXT/CSS"}

\* fetch resolves: an upstream error is passed on with its status; a stylesheet is
\* read as text and rewritten, anything else is streamed through
ProxyResponse ==
    /\ route = "proxy"
    /\ pc = "fetching"
    /\ \E u \in Upstreams(route) :
         /\ upstream' = u
         /\ IF ~IsOk(u.status)
            THEN Respond(u.status, <<"E", "r", "r", "o", "r", " ", "r", "e", "m", "o", "t", "o", ":", " ">> \o numberToString(u.status))
            ELSE IF isStylesheet(proxyHeaders(u).contentType)
            THEN RespondWith(u.status, RewrittenCss, proxyHeaders(u))
            ELSE RespondWith(u.status, UpstreamBody, proxyHeaders(u))
    /\ UNCHANGED <<envVars, fetches, timer, aborted, total, chunks, reads, pdfVars, trVars,
                   guardVars, urlVars, readerVars, tailVars, linkVars, clientVars>>

---------------------------------------------------------------------------
(* Documents: the tree cheerio's load() returns.  A document is a tuple of *)
(* nodes, a node's id is its index, node 1 is the root the route's         *)
(* selector matches (body, or the <article> wrapper of the reader route).  *)

TRANSLATION_BATCH_SIZE == 30

\* translation calls the text runs of the largest document need
MaxBatches == 3

Text(s) == [type |-> "text", name |-> "", data |-> s, children |-> <<>>]
\* an element as load() builds it: domhandler's Element has type "script" or
\* "style" when that is its name, and "tag" otherwise
Tag(name, kids) ==
    [type |-> IF name \in {"script", "style"} THEN name ELSE "tag",
     name |-> name, data |-> <<>>, children |-> kids]

\* the text of the k-th leaf of a flat document, with the outer whitespace varied
LeafText(k) ==
    LET w == <<"w">> \o numberToString(k)
    IN  CASE k % 3 = 0 -> w
          [] k % 3 = 1 -> <<" ">> \o w
          [] k % 3 = 2 -> w \o <<"\n", " ">>

\* a root with n text children
FlatDoc(n) == [k \in 1..(n + 1) |-> IF k = 1 THEN Tag("root", [j \in 1..n |-> j + 1]) ELSE Text(LeafText(k - 1))]

DocEmpty == <<Tag("root", <<>>)>>

DocHello ==
    << Tag("root", <<2, 4>>),
       Tag("p", <<3>>), Text(<<"H", "e", "l", "l", "o", " ", "w", "o", "r", "l", "d">>),
       Tag("a", <<5>>), Text(<<"N", "e", "x", "t">>) >>

DocMixed ==
    << Tag("root", <<2, 4, 6, 9, 10, 11>>),
       Tag("p", <<3>>), Text(<<" ", " ", "V", "i", "s", "i", "b", "l", "e", " ", "t", "e", "x", "t", " ">>),
       Tag("script", <<5>>), Text(<<"v", "a", "r", " ", "x", " ", "=", " ", "1", ";">>),
       Tag("pre", <<7>>), Tag("code", <<8>>), Text(<<"c", "o", "d", "e", " ", "s", "a", "m", "p", "l", "e">>),
       Text(<<" ", "\n", " ">>),
       Text(<<"h", "t", "t", "p", "s", ":", "/", "/", "e", "x", "a", "m", "p", "l", "e", ".", "c", "o", "m", "/", "p", "a", "g", "e">>),
       Tag("div", <<12, 13>>), Text(<<"W", "W", "W", ".", "e", "x", "a", "m", "p", "l", "e", ".", "c", "o", "m">>), Text(<<"t", "e", "l", "e", "p", "h", "o", "n", "e">>) >>

DocNested ==
    << Tag("root", <<2>>),
       Tag("article", <<3, 4>>), Text(<<"I", "n", "n", "e", "r", " ", "o", "n", "e">>),
       Tag("p", <<5>>), Text(<<" ", "I", "n", "n", "e", "r", " ", "t", "w", "o">>) >>

\* an article element inside a pre element
DocPreArticle ==
    << Tag("root", <<2>>),
       Tag("pre", <<3>>), Tag("article", <<4>>), Text(<<"l", "i", "s", "t", "i", "n", "g">>) >>

Documents ==
    { DocEmpty, DocHello, DocMixed, DocNested, DocPreArticle, FlatDoc(1),
      FlatDoc(TRANSLATION_BATCH_SIZE), FlatDoc(TRANSLATION_BATCH_SIZE + 1),
      FlatDoc((MaxBatches - 1) * TRANSLATION_BATCH_SIZE + 1) }

NoDoc == <<>>

---------------------------------------------------------------------------
(* translateBodyTextNodes / translateTextNodes: the walk                   *)

RECURSIVE trimStart(_)
trimStart(s) == IF s # <<>> /\ isSpace(Head(s)) THEN trimStart(Tail(s)) ELSE s

RECURSIVE trimEnd(_)
trimEnd(s) == IF s # <<>> /\ isSpace(s[Len(s)]) THEN trimEnd(SubSeq(s, 1, Len(s) - 1)) ELSE s

\* String.prototype.trim
trim(s) == trimEnd(trimStart(s))

Min(a, b) == IF a < b THEN a ELSE b

\* value.slice(from, to), 0-based, to exclusive
slice(s, from, to) == IF from >= to THEN <<>> ELSE SubSeq(s, from + 1, to)

\* a split that takes the core by trimming and loses the trailing white space
splitDropsTrailing(value) ==
    [leading |-> SubSeq(value, 1, Len(value) - Len(trimStart(value))),
     core |-> trim(value),
     trailing |-> <<>>]

splitOuterWhitespace(value) ==
    LET leading == SubSeq(value, 1, Len(value) - Len(trimStart(value)))
        trailing == SubSeq(value, Len(trimEnd(value)) + 1, Len(value))
    IN  [leading |-> leading,
         core |-> slice(value, Len(leading), Len(value) - Len(trailing)),
         trailing |-> trailing]

\* /^(https?:\/\/|www\.|mailto:|tel:|ftp:\/\/)/i
isLikelyUrlText(text) ==
    LET l == toLowerCase(text)
    IN  \/ startsWith(l, <<"h", "t", "t", "p", ":", "/", "/">>)
        \/ startsWith(l, <<"h", "t", "t", "p", "s", ":", "/", "/">>)
        \/ startsWith(l, <<"w", "w", "w", ".">>)
        \/ startsWith(l, <<"m", "a", "i", "l", "t", "o", ":">>)
        \/ startsWith(l, <<"t", "e", "l", ":">>)
        \/ startsWith(l, <<"f", "t", "p", ":", "/", "/">>)

blockedTags == {"script", "style", "noscript", "code", "pre", "kbd", "samp"}

RECURSIVE walk(_, _, _)
RECURSIVE walkChildren(_, _, _)

\* const walk = (node, blocked) => ...: the candidates pushed, in order
walk(nodes, id, blocked) ==
    LET node == nodes[id]
        isTag == node.type = "tag"
        nextBlocked == blocked \/ (isTag /\ node.name \in blockedTags)
        split == splitOuterWhitespace(node.data)
        pushed ==
            IF node.type = "text" /\ ~nextBlocked /\ Len(trim(node.data)) > 0
               /\ split.core # <<>> /\ ~isLikelyUrlText(split.core)
            THEN <<[node |-> id, leading |-> split.leading, trailing |-> split.trailing,
                    text |-> split.core]>>
            ELSE <<>>
    IN  pushed \o walkChildren(nodes, node.children, nextBlocked)

\* children.forEach((child) => walk(child, nextBlocked))
walkChildren(nodes, kids, blocked) ==
    IF kids = <<>> THEN <<>>
    ELSE walk(nodes, Head(kids), blocked) \o walkChildren(nodes, Tail(kids), blocked)

RECURSIVE preorder(_, _)
RECURSIVE preorderAll(_, _)

\* the nodes of the subtree of id, in document order
preorder(nodes, id) == <<id>> \o preorderAll(nodes, nodes[id].children)

preorderAll(nodes, kids) ==
    IF kids = <<>> THEN <<>>
    ELSE preorder(nodes, Head(kids)) \o preorderAll(nodes, Tail(kids))

\* the elements $(selector) matches, in document order: $('body') of the full-page
\* route is the root; $('article') of the reader route is the <article> wrapper
\* and every article element inside it
selected(r, nodes) ==
    SelectSeq(preorder(nodes, 1),
              LAMBDA id : id = 1 \/ (r = "reader" /\ nodes[id].type = "tag"
                                     /\ nodes[id].name = "article"))

\* $(selector).each((_, root) => walk(root, false))
RECURSIVE walkEach(_, _)
walkEach(nodes, roots) ==
    IF roots = <<>> THEN <<>>
    ELSE walk(nodes, Head(roots), FALSE) \o walkEach(nodes, Tail(roots))

collectCandidates(r, nodes) == walkEach(nodes, selected(r, nodes))

---------------------------------------------------------------------------
(* The translation service (DeepL) and translateText / translateBatch      *)

\* the translation the service gives for input j of call c, tagged with both
Translated(c, j) ==
    LET t == <<"t">> \o numberToString(c) \o <<"_">> \o numberToString(j)
    IN  IF j % 2 = 1 THEN <<" ">> \o t \o <<" ">> ELSE t

\* translations of length len, entry j honest unless bad says otherwise
Entries(c, len, badAt, bad) ==
    [j \in 1..len |-> IF j = badAt THEN bad ELSE Str(Translated(c, j))]

\* What the service can answer to call c with n inputs: a non-2xx status with or
\* without a JSON message, or 200 with a payload whose translations are absent,
\* one short, one long, all honest, or honest but for one entry whose text is
\* absent, empty or blank.
ServiceResponses(c, n) ==
    [ status : {403, 456},
      message : {Undefined, Str(<<"Q", "u", "o", "t", "a", " ", "e", "x", "c", "e", "e", "d", "e", "d">>), Str(<<"I", "n", "v", "a", "l", "i", "d", " ", "D", "E", "E", "P", "L", "_", "A", "U", "T", "H", "_", "K", "E", "Y", " ", "h", "e", "a", "d", "e", "r">>)},
      translations : {Undefined} ]
    \cup
    [ status : {200},
      message : {Undefined},
      translations :
        {Undefined}
        \cup { Str(Entries(c, len, 0, Undefined)) : len \in {n - 1, n, n + 1} }
        \cup { Str(Entries(c, n, 1, Undefined)),
               Str(Entries(c, n, n, Str(<<>>))),
               Str(Entries(c, n, 1, Str(<<" ", " ">>))) } ]

Failure(msg) == [ok |-> FALSE, error |-> msg, value |-> <<>>]
Success(v) == [ok |-> TRUE, error |-> <<>>, value |-> v]

ConfigMissing == <<"D", "E", "E", "P", "L", "_", "A", "U", "T", "H", "_", "K", "E", "Y", " ", "n", "o", " ", "e", "s", "t", "a", " ", "c", "o", "n", "f", "i", "g", "u", "r", "a", "d", "a", " ", "e", "n", " ", "e", "l", " ", "e", "n", "t", "o", "r", "n", "o", ".">>

\* let detail = `DeepL devolvio ${response.status}`, plus `: ${payload.message}`
serviceErrorDetail(resp) ==
    <<"D", "e", "e", "p", "L", " ", "d", "e", "v", "o", "l", "v", "i", "o", " ">> \o numberToString(resp.status)
    \o (IF resp.message.def /\ resp.message.v # <<>>
        THEN <<":", " ">> \o resp.message.v ELSE <<>>)

\* translateText after its fetch resolved with resp
translateText(resp) ==
    LET first == IF resp.translations.def /\ Len(resp.translations.v) >= 1
                 THEN resp.translations.v[1] ELSE Undefined
    IN  IF ~IsOk(resp.status) THEN Failure(serviceErrorDetail(resp))
        ELSE IF ~first.def \/ first.v = <<>>
             THEN Failure(<<"D", "e", "e", "p", "L", " ", "d", "e", "v", "o", "l", "v", "i", "o", " ", "u", "n", "a", " ", "r", "e", "s", "p", "u", "e", "s", "t", "a", " ", "s", "i", "n", " ", "t", "e", "x", "t", "o", " ", "t", "r", "a", "d", "u", "c", "i", "d", "o", ".">>)
        ELSE Success(first.v)

\* translateBatch(texts) after its fetch resolved with resp
translateBatch(texts, resp) ==
    LET translated == [j \in 1..Len(resp.translations.v) |->
                         IF resp.translations.v[j].def THEN resp.translations.v[j].v ELSE <<>>]
    IN  IF Len(texts) = 1
        THEN (LET one == translateText(resp)
              IN  IF one.ok THEN Success(<<one.value>>) ELSE one)
        ELSE IF ~IsOk(resp.status) THEN Failure(serviceErrorDetail(resp))
        ELSE IF ~resp.translations.def \/ Len(translated) # Len(texts)
             THEN Failure(<<"D", "e", "e", "p", "L", " ", "d", "e", "v", "o", "l", "v", "i", "o", " ", "u", "n", "a", " ", "c", "a", "n", "t", "i", "d", "a", "d", " ", "i", "n", "e", "s", "p", "e", "r", "a", "d", "a", " ", "d", "e", " ", "t", "r", "a", "d", "u", "c", "c", "i", "o", "n", "e", "s", ".">>)
        ELSE Success(translated)

\* batch.forEach((entry, index) => ...) from entry k on: the node data and the
\* writes made, d and log being those so far
RECURSIVE writeBack(_, _, _, _, _)
writeBack(d, log, batch, translatedBatch, k) ==
    IF k > Len(batch) THEN [data |-> d, log |-> log]
    ELSE LET entry == batch[k]
             translated == IF k <= Len(translatedBatch) THEN trim(translatedBatch[k]) ELSE <<>>
         IN  IF translated = <<>>
             THEN writeBack(d, log, batch, translatedBatch, k + 1)
             ELSE writeBack([d EXCEPT ![entry.node] = entry.leading \o translated \o entry.trailing],
                            Append(log, [node |-> entry.node, call |-> calls, index |-> k]),
                            batch, translatedBatch, k + 1)

\* candidates.slice(i, i + TRANSLATION_BATCH_SIZE)
\* a slice that runs one candidate into the next batch
batchAtOverlap(cands, i) ==
    SubSeq(cands, i + 1, IF i + TRANSLATION_BATCH_SIZE + 1 < Len(cands)
                         THEN i + TRANSLATION_BATCH_SIZE + 1 ELSE Len(cands))

batchAt(cands, i) ==
    SubSeq(cands, i + 1, IF i + TRANSLATION_BATCH_SIZE < Len(cands)
                         THEN i + TRANSLATION_BATCH_SIZE ELSE Len(cands))

textsOf(batch) == [k \in 1..Len(batch) |-> batch[k].text]

\* catch (error) of GET: 500 for the missing key, 502 otherwise
TranslationThrow(msg) ==
    Respond(IF includes(msg, <<"D", "E", "E", "P", "L", "_", "A", "U", "T", "H", "_", "K", "E", "Y">>) THEN 500 ELSE 502, msg)

NoResponse == [status |-> 0, message |-> Undefined, translations |-> Undefined]

NoAnswer == [call |-> 0, kind |-> "none", inputs |-> 0, response |-> NoResponse]

\* the response resp to the call in flight
Answer(kind, resp) == [call |-> calls, kind |-> kind, inputs |-> Len(inflight), response |-> resp]

\* the same with the request sent a second time
CallServiceTwice(texts, awaiting) ==
    IF ~authKey
    THEN /\ TranslationThrow(ConfigMissing)
         /\ UNCHANGED <<inflight, calls>>
    ELSE /\ pc' = awaiting
         /\ inflight' = texts
         /\ calls' = calls + 2
         /\ UNCHANGED <<status, message, headers>>

\* translateText / translateBatch up to their await fetch(endpoint, ...)
CallService(texts, awaiting) ==
    IF ~authKey
    THEN /\ TranslationThrow(ConfigMissing)
         /\ UNCHANGED <<inflight, calls>>
    ELSE /\ pc' = awaiting
         /\ inflight' = texts
         /\ calls' = calls + 1
         /\ UNCHANGED <<status, message, headers>>

\* readerDocument.title: the <title> text or the hostname, never empty
Title == <<"T", "i", "t", "l", "e">>

\* The for loop at index i: the next batch is submitted; past the last batch the
\* full-page route answers 200 with $.html(), the reader route goes on to
\* translateText(readerDocument.title).
ContinueLoop(i, cands) ==
    /\ batchStart' = i
    /\ IF i < Len(cands)
       THEN CallService(textsOf(batchAt(cands, i)), "translating")
       ELSE IF route = "reader"
       THEN CallService(<<Title>>, "titling")
       ELSE /\ RespondWith(200, <<"h", "t", "m", "l">>, HtmlHeaders)
            /\ UNCHANGED <<inflight, calls>>

\* GET resumes with sourceHtml: load(), the walk, and the first translation call.
\* total, chunks and the response were locals of fetchHtmlWithLimits.
Load ==
    /\ route \in PageRoutes
    /\ pc = "fetched"
    /\ \E d \in Documents :
         /\ doc' = d
         /\ data' = [k \in 1..Len(d) |-> d[k].data]
         /\ candidates' = collectCandidates(route, d)
         /\ ContinueLoop(0, candidates')
    /\ writeLog' = <<>>
    /\ answer' = NoAnswer
    /\ upstream' = NoUpstream
    /\ total' = 0
    /\ chunks' = <<>>
    /\ reads' = 0
    /\ UNCHANGED <<envVars, fetches, timer, aborted, pdfVars, guardVars, urlVars, readerVars, tailVars, linkVars, clientVars>>

\* the fetch of translateBatch resolves: the body of one turn of the for loop
\* from the await on, and the next turn up to its await
TranslateResponse ==
    /\ pc = "translating"
    /\ \E resp \in ServiceResponses(calls, Len(inflight)) :
         LET batch == batchAt(candidates, batchStart)
             translatedBatch == translateBatch(inflight, resp)
             written == writeBack(data, writeLog, batch, translatedBatch.value, 1)
         IN  IF ~translatedBatch.ok
             THEN /\ TranslationThrow(translatedBatch.error)
                  /\ answer' = Answer("batch", resp)
                  /\ UNCHANGED <<data, writeLog, batchStart, inflight, calls>>
             ELSE /\ data' = written.data
                  /\ writeLog' = written.log
                  /\ answer' = Answer("batch", resp)
                  /\ ContinueLoop(batchStart + TRANSLATION_BATCH_SIZE, candidates)
    /\ UNCHANGED <<envVars, fetches, timer, aborted, streamVars, pdfVars, doc, candidates,
                   guardVars, urlVars, readerVars, tailVars, linkVars, clientVars>>

\* the fetch of translateText(readerDocument.title) resolves; on success the
\* reader payload is returned with Response.json (status 200)
TitleResponse ==
    /\ pc = "titling"
    /\ \E resp \in ServiceResponses(calls, 1) :
         LET title == translateText(resp)
         IN  /\ answer' = Answer("title", resp)
             /\ IF ~title.ok
                THEN TranslationThrow(title.error)
                ELSE RespondWith(200, <<"j", "s", "o", "n">>, JsonHeaders)
    /\ UNCHANGED <<envVars, fetches, timer, aborted, streamVars, pdfVars, data, doc, candidates,
                   batchStart, inflight, calls, writeLog, guardVars, urlVars, readerVars, tailVars, linkVars, clientVars>>

\* the fetch of a translation call rejects: the service is unreachable
TranslateFetchFails ==
    /\ pc \in {"translating", "titling"}
    /\ TranslationThrow(<<"f", "e", "t", "c", "h", " ", "f", "a", "i", "l", "e", "d">>)
    /\ UNCHANGED <<envVars, fetches, timer, aborted, streamVars, pdfVars, trVars, guardVars, urlVars, readerVars, tailVars, linkVars, clientVars>>

---------------------------------------------------------------------------
(* The request pipeline                                                    *)

PipeIdle ==
    /\ pc = "start"
    /\ status = 0
    /\ message = <<>>
    /\ headers = NoHeaders
    /\ fetches = 0
    /\ timer = "unset"
    /\ aborted = FALSE
    /\ upstream = NoUpstream
    /\ total = 0
    /\ chunks = <<>>
    /\ reads = 0
    /\ decodes = 0
    /\ extracted = <<>>
    /\ payload = NoPayload
    /\ data = <<>>
    /\ doc = NoDoc
    /\ candidates = <<>>
    /\ batchStart = 0
    /\ inflight = <<>>
    /\ calls = 0
    /\ answer = NoAnswer
    /\ writeLog = <<>>

GuardIdle ==
    /\ gHost = <<>>
    /\ gGuard = "none"
    /\ gResult = FALSE
    /\ gPc = "idle"

\* a parsed base URL without query and fragment
NoBase == [scheme |-> <<>>, host |-> <<>>, path |-> <<>>]

\* what a URL function gives back: null, a string, or an exception thrown
NoResult == [kind |-> "none", v |-> <<>>]

UrlIdle ==
    /\ uFn = "none"
    /\ uBase = NoBase
    /\ uValue = <<>>
    /\ uResult = NoResult
    /\ uPc = "idle"

\* no source document, no ReaderDocument
NoSource == [title |-> <<>>, body |-> <<>>]
NoReaderDocument == [title |-> <<>>, contentHtml |-> <<>>]

ReaderIdle ==
    /\ xDoc = NoSource
    /\ xResult = NoReaderDocument
    /\ xPc = "idle"

TailIdle ==
    /\ zHtml = <<>>
    /\ zBase = NoBase
    /\ zArticle = <<>>
    /\ zOnce = <<>>
    /\ zTwice = <<>>
    /\ zPc = "idle"

LinkIdle ==
    /\ lAnchors = <<>>
    /\ lLinks = <<>>
    /\ lPc = "idle"

ClientIdle ==
    /\ cMounted = FALSE
    /\ cApiUrl = 0
    /\ cRequests = <<>>
    /\ cResult = [from |-> 0, value |-> "null"]
    /\ cError = [from |-> 0, text |-> ""]

Init ==
    /\ route \in Routes
    /\ rawUrl \in RawUrls
    /\ authKey \in BOOLEAN
    /\ PipeIdle
    /\ GuardIdle
    /\ UrlIdle
    /\ ReaderIdle
    /\ TailIdle
    /\ LinkIdle
    /\ ClientIdle

Next ==
    \/ PageGET
    \/ TimerFires
    \/ HtmlAborted
    \/ HtmlFetchFails
    \/ HtmlResponse
    \/ HtmlRead
    \/ Load
    \/ TranslateResponse
    \/ TitleResponse
    \/ TranslateFetchFails
    \/ PdfGET
    \/ PdfFetchFails
    \/ PdfResponse
    \/ PdfRead
    \/ PdfDecoded
    \/ PdfDecodeFails
    \/ ProxyGET
    \/ ProxyFetchFails
    \/ ProxyResponse

Spec == Init /\ [][Next]_vars

---------------------------------------------------------------------------
(* The host guards applied to single hostnames                             *)

GuardHosts ==
    { <<"l", "o", "c", "a", "l", "h", "o", "s", "t">>, <<"1", "2", "7", ".", "0", ".", "0", ".", "1">>, <<"1", "0", ".", "0", ".", "0", ".", "5">>, <<"1", "9", "2", ".", "1", "6", "8", ".", "1", ".", "1">>, <<"1", "6", "9", ".", "2", "5", "4", ".", "1", ".", "1">>,
      <<":", ":", "1">>, <<"f", "d", "0", "0", ":", ":", "1">>, <<"e", "x", "a", "m", "p", "l", "e", ".", "c", "o", "m">>, <<"e", "n", ".", "w", "i", "k", "i", "p", "e", "d", "i", "a", ".", "o", "r", "g">>,
      <<"[", ":", ":", "1", "]">>, <<"[", "f", "d", "0", "0", ":", ":", "1", "]">>, <<"L", "O", "C", "A", "L", "H", "O", "S", "T">>, <<"1", "7", "2", ".", "1", "6", ".", "0", ".", "1">>, <<"1", "7", "2", ".", "3", "1", ".", "2", "5", "5", ".", "1">>,
      <<"1", "7", "2", ".", "3", "2", ".", "0", ".", "1">>, <<"0", ".", "0", ".", "0", ".", "0">>, <<"1", "6", "9", ".", "2", "5", "4", ".", "1", "6", "9", ".", "2", "5", "4">>, <<"f", "e", "8", "0", ":", ":", "1">>, <<"f", "c", "0", "0", ":", ":", "1">>,
      <<"F", "D", "1", "2", ":", "3", "4", "5", "6", ":", ":", "1">>, <<"u", "p", "l", "o", "a", "d", ".", "w", "i", "k", "i", "m", "e", "d", "i", "a", ".", "o", "r", "g">>, <<"w", "w", "w", ".", "b", "b", "c", ".", "c", "o", "m">>, <<"b", "b", "c", ".", "c", "o", "m">>,
      <<"n", "e", "w", "s", ".", "t", "e", "s", "t">>, <<"f", "d", ".", "w", "i", "k", "i", "p", "e", "d", "i", "a", ".", "o", "r", "g">>, <<"1", "0", ".", "e", "x", "a", "m", "p", "l", "e", ".", "c", "o", "m">> }

GuardInit ==
    /\ route = "none"
    /\ rawUrl = Undefined
    /\ authKey = FALSE
    /\ PipeIdle
    /\ gHost \in GuardHosts
    /\ gGuard \in Routes
    /\ gResult = FALSE
    /\ gPc = "ready"
    /\ UrlIdle
    /\ ReaderIdle
    /\ TailIdle
    /\ LinkIdle
    /\ ClientIdle

\* the guard of route gGuard classifies gHost
GuardApply ==
    /\ gPc = "ready"
    /\ gResult' = HostGuard(gGuard, gHost)
    /\ gPc' = "done"
    /\ UNCHANGED <<pipeVars, gHost, gGuard, urlVars, readerVars, tailVars, linkVars, clientVars>>

GuardNext == GuardApply

SpecGuard == GuardInit /\ [][GuardNext]_vars


---------------------------------------------------------------------------
(* lib/url (src/unnamed/part_000): toAbsoluteUrl, toProxyUrl, toNavUrl,    *)
(* rewriteSrcset, and new URL(value, base)                                 *)

\* the strings of parts one after another
RECURSIVE concat(_)
concat(parts) ==
    IF Len(parts) = 0 THEN <<>>
    ELSE IF Len(parts) = 1 THEN parts[1]
    ELSE LET h == Len(parts) \div 2
         IN  concat(SubSeq(parts, 1, h)) \o concat(SubSeq(parts, h + 1, Len(parts)))

Null == [kind |-> "null", v |-> <<>>]
Url(s) == [kind |-> "string", v |-> s]
Thrown == [kind |-> "throw", v |-> <<>>]

Base(scheme, host, path) == [scheme |-> scheme, host |-> host, path |-> path]

\* base.origin
origin(base) == base.scheme \o <<":", "/", "/">> \o base.host

\* the path up to and including its last "/"
RECURSIVE dirOf(_)
dirOf(path) ==
    IF path = <<>> THEN <<"/">>
    ELSE IF path[Len(path)] = "/" THEN path
    ELSE dirOf(SubSeq(path, 1, Len(path) - 1))

\* the host and path of a special-scheme URL from the text after "scheme://":
\* no host, or a space in it, makes new URL throw; an empty path is "/"
authority(scheme, rest) ==
    LET host == takeHost(rest)
        tail == SubSeq(rest, Len(host) + 1, Len(rest))
    IN  IF host = <<>> \/ InSeq(" ", host) THEN Thrown
        ELSE Url(scheme \o <<":", "/", "/">> \o toLowerCase(host)
                 \o (IF tail = <<>> \/ Head(tail) \in {"?", "#"} THEN <<"/">> ELSE <<>>)
                 \o tail)

\* a reference without scheme resolved against base
relative(ref, base) ==
    IF ref = <<>> THEN origin(base) \o base.path
    ELSE IF Head(ref) = "/" THEN origin(base) \o ref
    ELSE IF Head(ref) \in {"?", "#"} THEN origin(base) \o base.path \o ref
    ELSE origin(base) \o dirOf(base.path) \o ref

\* the URL serializer's percent-encoding of the query of a special-scheme URL,
\* for the one character of that set the values carry, the apostrophe
escapeQuery(s) ==
    LET inQuery(k) == (\E j \in 1..(k - 1) : s[j] = "?") /\ (\A j \in 1..k : s[j] # "#")
    IN  concat([k \in 1..Len(s) |-> IF s[k] = "'" /\ inQuery(k) THEN <<"%", "2", "7">> ELSE <<s[k]>>])

\* new URL(value, base).toString() for an http/https base.  The values carry no
\* dot segments, credentials, ports or other characters that need percent-encoding;
\* the parser drops every tab and newline of its input first.
urlResolve(input, base) ==
    LET value == removeChars(input, {"\t", "\n", "\r"})
        k == schemeEnd(value)
        scheme == toLowerCase(SubSeq(value, 1, k - 1))
        rest == SubSeq(value, k + 1, Len(value))
    IN  IF k = 0
        THEN (IF startsWith(value, <<"/", "/">>)
              THEN authority(base.scheme, dropSlashes(value))
              ELSE Url(escapeQuery(relative(value, base))))
        ELSE IF scheme \in SpecialSchemes \ {<<"f", "i", "l", "e">>}
        THEN (IF rest # <<>> /\ Head(rest) \in {"/", "\\"}
              THEN authority(scheme, dropSlashes(rest))
              ELSE IF scheme = base.scheme THEN Url(relative(rest, base))
              ELSE authority(scheme, rest))
        ELSE Url(scheme \o <<":">> \o rest)

\* /^[a-zA-Z][a-zA-Z\d+.-]*:/.test(value)
hasScheme(value) == schemeEnd(value) > 0

toAbsoluteUrl(base, value) ==
    LET trimmed == trim(value)
        normalized == toLowerCase(trimmed)
    IN  IF trimmed = <<>> THEN Null
        ELSE IF \/ startsWith(trimmed, <<"#">>)
                \/ startsWith(normalized, <<"m", "a", "i", "l", "t", "o", ":">>)
                \/ startsWith(normalized, <<"t", "e", "l", ":">>)
                \/ startsWith(normalized, <<"j", "a", "v", "a", "s", "c", "r", "i", "p", "t", ":">>)
        THEN Null
        ELSE IF startsWith(trimmed, <<"/", "/">>) THEN Url(<<"h", "t", "t", "p", "s", ":">> \o trimmed)
        ELSE IF /\ hasScheme(trimmed)
                /\ ~startsWith(trimmed, <<"h", "t", "t", "p", ":">>)
                /\ ~startsWith(trimmed, <<"h", "t", "t", "p", "s", ":">>)
        THEN Null
        ELSE urlResolve(trimmed, base)

\* characters encodeURIComponent leaves as they are
isUnreserved(c) ==
    \/ InSeq(c, UpperChars) \/ InSeq(c, LowerChars) \/ isDigit(c)
    \/ c \in {"-", "_", ".", "!", "~", "*", "'", "(", ")"}

\* the percent-escape of an ASCII character outside the unreserved set
percentEscape(c) ==
    CASE c = " " -> <<"%", "2", "0">> [] c = "\"" -> <<"%", "2", "2">> [] c = "#" -> <<"%", "2", "3">>
      [] c = "$" -> <<"%", "2", "4">> [] c = "%" -> <<"%", "2", "5">> [] c = "&" -> <<"%", "2", "6">>
      [] c = "+" -> <<"%", "2", "B">> [] c = "," -> <<"%", "2", "C">> [] c = "/" -> <<"%", "2", "F">>
      [] c = ":" -> <<"%", "3", "A">> [] c = ";" -> <<"%", "3", "B">> [] c = "=" -> <<"%", "3", "D">>
      [] c = "?" -> <<"%", "3", "F">> [] c = "@" -> <<"%", "4", "0">>

encodeURIComponent(s) ==
    concat([k \in 1..Len(s) |-> IF isUnreserved(s[k]) THEN <<s[k]>> ELSE percentEscape(s[k])])

\* a template literal's ${x}: the string itself, "undefined" for undefined
interpolate(x) == IF x.def THEN x.v ELSE <<"u", "n", "d", "e", "f", "i", "n", "e", "d">>

\* `/api/proxy?url=${encodeURIComponent(abs)}`
toProxyUrl(abs) == <<"/", "a", "p", "i", "/", "p", "r", "o", "x", "y", "?", "u", "r", "l", "=">> \o encodeURIComponent(abs)

\* `/${lang}?url=${encodeURIComponent(abs)}`; lang and abs are the first and
\* the second argument of the call, abs undefined when the call passes one
toNavUrl(lang, abs) == <<"/">> \o lang \o <<"?", "u", "r", "l", "=">> \o encodeURIComponent(interpolate(abs))

\* rewriteNavigationLink(href, originUrl) of the page routes, which ends with
\* return toNavUrl(absolute)
rewriteNavigationLink(href, originUrl) ==
    LET trimmed == trim(href)
        normalized == toLowerCase(trimmed)
        absolute == toAbsoluteUrl(originUrl, trimmed)
    IN  IF \/ trimmed = <<>>
           \/ startsWith(trimmed, <<"#">>)
           \/ startsWith(normalized, <<"m", "a", "i", "l", "t", "o", ":">>)
           \/ startsWith(normalized, <<"t", "e", "l", ":">>)
           \/ startsWith(normalized, <<"j", "a", "v", "a", "s", "c", "r", "i", "p", "t", ":">>)
        THEN Url(href)
        ELSE IF absolute.kind = "throw" THEN Thrown
        ELSE IF absolute.kind = "null" THEN Url(href)
        ELSE Url(toNavUrl(absolute.v, Undefined))

\* s.split(sep) for a one-character separator: the pieces, empty ones included
RECURSIVE split(_, _)
split(s, sep) ==
    LET k == indexOf(s, sep)
    IN  IF k = 0 THEN <<s>>
        ELSE <<SubSeq(s, 1, k - 1)>> \o split(SubSeq(s, k + 1, Len(s)), sep)

\* part.split(/\s+/) of a trimmed, non-empty part: its tokens
RECURSIVE splitSpaces(_)
splitSpaces(part) ==
    LET k == IF \E j \in 1..Len(part) : isSpace(part[j])
             THEN CHOOSE j \in 1..Len(part) :
                      isSpace(part[j]) /\ \A i \in 1..(j - 1) : ~isSpace(part[i])
             ELSE 0
    IN  IF k = 0 THEN <<part>>
        ELSE <<SubSeq(part, 1, k - 1)>> \o splitSpaces(trimStart(SubSeq(part, k, Len(part))))

\* parts.join(sep)
RECURSIVE join(_, _)
join(parts, sep) ==
    IF parts = <<>> THEN <<>>
    ELSE IF Len(parts) = 1 THEN parts[1]
    ELSE parts[1] \o sep \o join(Tail(parts), sep)

\* the callback of .map in rewriteSrcset, for one entry
rewriteSrcsetEntry(base, entry) ==
    LET part == trim(entry)
        tokens == splitSpaces(part)
        urlPart == tokens[1]
        descriptors == Tail(tokens)
        absolute == toAbsoluteUrl(base, urlPart)
        nextUrl == IF absolute.kind = "string" /\ absolute.v # <<>>
                   THEN toProxyUrl(absolute.v) ELSE urlPart
    IN  IF part = <<>> THEN Url(part)
        ELSE IF absolute.kind = "throw" THEN Thrown
        ELSE Url(trim(join(<<nextUrl>> \o descriptors, <<" ">>)))

rewriteSrcset(base, srcset) ==
    LET entries == split(srcset, ",")
        mapped == [k \in 1..Len(entries) |-> rewriteSrcsetEntry(base, entries[k])]
    IN  IF \E k \in 1..Len(entries) : mapped[k].kind = "throw" THEN Thrown
        ELSE Url(join([k \in 1..Len(entries) |-> mapped[k].v], <<",", " ">>))

---------------------------------------------------------------------------
(* The asset proxy's stylesheet rewriting (src/unnamed/part_003)           *)

\* the characters of s before its first c, all of s when it has none
upTo(s, c) == IF InSeq(c, s) THEN SubSeq(s, 1, indexOf(s, c) - 1) ELSE s

\* rawRef.trim().replace(/^['"]|['"]$/g, '')
stripQuotes(rawRef) ==
    LET t == trim(rawRef)
        a == IF t # <<>> /\ Head(t) \in {"'", "\""} THEN Tail(t) ELSE t
    IN  IF a # <<>> /\ a[Len(a)] \in {"'", "\""} THEN SubSeq(a, 1, Len(a) - 1) ELSE a

\* rewriteRef inside rewriteCssUrls
rewriteRef(rawRef, cssUrl) ==
    LET cleaned == stripQuotes(rawRef)
        abs == toAbsoluteUrl(cssUrl, cleaned)
    IN  IF abs.kind = "throw" THEN Thrown
        ELSE IF abs.kind = "null" THEN Url(rawRef)
        ELSE Url(<<"'">> \o toProxyUrl(abs.v) \o <<"'">>)

\* the length of the match of /url\(([^)]+)\)/i at the start of s, 0 for none
urlMatch(s) ==
    IF /\ Len(s) >= 6
       /\ toLowerCase(SubSeq(s, 1, 4)) = <<"u", "r", "l", "(">>
       /\ s[5] # ")"
       /\ InSeq(")", s)
    THEN indexOf(s, ")") ELSE 0

\* the replacement the first pass gives for the match full with group ref
urlReplacement(full, ref, cssUrl) ==
    LET trimmed == trim(ref)
        rewritten == rewriteRef(trimmed, cssUrl)
    IN  IF trimmed = <<>> \/ startsWith(trimmed, <<"d", "a", "t", "a", ":">>) \/ startsWith(trimmed, <<"#">>)
        THEN Url(full)
        ELSE IF rewritten.kind = "throw" THEN Thrown
        ELSE Url(<<"u", "r", "l", "(">> \o rewritten.v \o <<")">>)

\* css.replace(/url\(([^)]+)\)/gi, ...): the first pass
RECURSIVE withUrl(_, _)
withUrl(css, cssUrl) ==
    LET from(k) == SubSeq(css, k, Len(css))
        at == {k \in 1..Len(css) : urlMatch(from(k)) > 0}
        k == CHOOSE first \in at : \A other \in at : first <= other
        n == urlMatch(from(k))
        piece == urlReplacement(SubSeq(css, k, k + n - 1), SubSeq(css, k + 4, k + n - 2), cssUrl)
        rest == withUrl(from(k + n), cssUrl)
    IN  IF at = {} THEN Url(css)
        ELSE IF piece.kind = "throw" \/ rest.kind = "throw" THEN Thrown
        ELSE Url(SubSeq(css, 1, k - 1) \o piece.v \o rest.v)

\* the match of /@import\s+(url\(([^)]+)\)|(['"])(.*?)\3)/i at the start of s:
\* its length (0 for none) and the group the callback reads, urlInUrl ?? quotedRef
importMatch(s) ==
    LET none == [len |-> 0, ref |-> <<>>]
        after == IF Len(s) > 7 THEN SubSeq(s, 8, Len(s)) ELSE <<>>
        target == trimStart(after)
        gap == Len(after) - Len(target)
        u == urlMatch(target)
        quoted == Tail(target)
        line == upTo(quoted, "\n")
    IN  IF ~(Len(s) > 7 /\ toLowerCase(SubSeq(s, 1, 7)) = <<"@", "i", "m", "p", "o", "r", "t">> /\ gap > 0) THEN none
        ELSE IF u > 0 THEN [len |-> 7 + gap + u, ref |-> SubSeq(target, 5, u - 1)]
        ELSE IF target # <<>> /\ Head(target) \in {"'", "\""} /\ InSeq(Head(target), line)
        THEN [len |-> 7 + gap + 1 + indexOf(line, Head(target)),
              ref |-> upTo(line, Head(target))]
        ELSE none

\* the replacement the second pass gives for the match full with reference group
importReplacement(full, group, cssUrl) ==
    LET ref == trim(group)
        abs == toAbsoluteUrl(cssUrl, ref)
    IN  IF ref = <<>> THEN Url(full)
        ELSE IF abs.kind = "throw" THEN Thrown
        ELSE IF abs.kind = "null" THEN Url(full)
        ELSE Url(<<"@", "i", "m", "p", "o", "r", "t", " ", "u", "r", "l", "(", "'">> \o toProxyUrl(abs.v) \o <<"'", ")">>)

\* withUrl.replace(/@import\s+(...)/gi, ...): the second pass
RECURSIVE withImport(_, _)
withImport(css, cssUrl) ==
    LET from(k) == SubSeq(css, k, Len(css))
        at == {k \in 1..Len(css) : importMatch(from(k)).len > 0}
        k == CHOOSE first \in at : \A other \in at : first <= other
        mt == importMatch(from(k))
        piece == importReplacement(SubSeq(css, k, k + mt.len - 1), mt.ref, cssUrl)
        rest == withImport(from(k + mt.len), cssUrl)
    IN  IF at = {} THEN Url(css)
        ELSE IF piece.kind = "throw" \/ rest.kind = "throw" THEN Thrown
        ELSE Url(SubSeq(css, 1, k - 1) \o piece.v \o rest.v)

rewriteCssUrls(css, cssUrl) ==
    LET first == withUrl(css, cssUrl)
    IN  IF first.kind = "throw" THEN Thrown ELSE withImport(first.v, cssUrl)

---------------------------------------------------------------------------
(* The URL functions applied to single values                              *)

UrlBases ==
    { Base(<<"h", "t", "t", "p", "s">>, <<"e", "x", "a", "m", "p", "l", "e", ".", "c", "o", "m">>, <<"/">>),
      Base(<<"h", "t", "t", "p">>, <<"n", "e", "w", "s", ".", "t", "e", "s", "t">>, <<"/", "a", "/", "b", ".", "h", "t", "m", "l">>) }

\* attribute values given to toAbsoluteUrl
AbsoluteInputs ==
    { <<>>, <<" ", " ", " ">>, <<"#", "t", "o", "p">>, <<"m", "a", "i", "l", "t", "o", ":", "a", "@", "b", ".", "c", "o", "m">>, <<"M", "A", "I", "L", "T", "O", ":", "a", "@", "b", ".", "c", "o", "m">>, <<"t", "e", "l", ":", "+", "1", "2", "3">>,
      <<"j", "a", "v", "a", "s", "c", "r", "i", "p", "t", ":", "a", "l", "e", "r", "t", "(", "1", ")">>, <<" ", "J", "a", "v", "a", "S", "c", "r", "i", "p", "t", ":", "v", "o", "i", "d", "(", "0", ")">>, <<"f", "t", "p", ":", "/", "/", "e", "x", "a", "m", "p", "l", "e", ".", "c", "o", "m", "/", "f">>,
      <<"d", "a", "t", "a", ":", "i", "m", "a", "g", "e", "/", "p", "n", "g", ";", "b", "a", "s", "e", "6", "4", ",", "A", "A", "A", "A">>, <<"b", "l", "o", "b", ":", "x">>, <<"/", "/", "c", "d", "n", ".", "t", "e", "s", "t", "/", "l", "i", "b", ".", "j", "s">>,
      <<"/", "n", "e", "x", "t">>, <<"a", ".", "j", "p", "g">>, <<" ", "i", "m", "g", "/", "b", ".", "p", "n", "g", " ">>, <<"?", "p", "a", "g", "e", "=", "2">>,
      <<"h", "t", "t", "p", ":", "/", "/", "e", "x", "a", "m", "p", "l", "e", ".", "c", "o", "m", "/", "x">>, <<"h", "t", "t", "p", "s", ":", "/", "/", "O", "t", "h", "e", "r", ".", "t", "e", "s", "t", "/", "y", "?", "z", "=", "1">>, <<"h", "t", "t", "p", "s", ":", "/", "/", "o", "t", "h", "e", "r", ".", "t", "e", "s", "t">>,
      <<"H", "T", "T", "P", ":", "/", "/", "e", "x", "a", "m", "p", "l", "e", ".", "c", "o", "m", "/", "x">>, <<"H", "t", "t", "p", "s", ":", "/", "/", "o", "t", "h", "e", "r", ".", "t", "e", "s", "t", "/", "y">>, <<"h", "t", "t", "p", ":", "/", "/">>,
      <<"h", "t", "t", "p", "s", ":", "/", "/", "e", "x", "a", " ", "m", "p", "l", "e", ".", "c", "o", "m", "/">>, <<"h", "t", "t", "p", ":", "r", "e", "l", "a", "t", "i", "v", "e">> }

\* href values given to rewriteNavigationLink
NavInputs ==
    { <<>>, <<" ">>, <<"#", "t", "o", "p">>, <<"m", "a", "i", "l", "t", "o", ":", "a", "@", "b", ".", "c", "o", "m">>, <<"T", "e", "l", ":", "+", "1", "2", "3">>, <<"j", "a", "v", "a", "s", "c", "r", "i", "p", "t", ":", "a", "l", "e", "r", "t", "(", "1", ")">>,
      <<"f", "t", "p", ":", "/", "/", "e", "x", "a", "m", "p", "l", "e", ".", "c", "o", "m", "/", "f">>, <<"/", "n", "e", "x", "t">>, <<" ", "/", "n", "e", "x", "t", " ">>, <<"p", "a", "g", "e", "2", ".", "h", "t", "m", "l">>, <<"?", "p", "a", "g", "e", "=", "2">>,
      <<"h", "t", "t", "p", "s", ":", "/", "/", "o", "t", "h", "e", "r", ".", "t", "e", "s", "t", "/", "y", "?", "z", "=", "1">>, <<"/", "/", "c", "d", "n", ".", "t", "e", "s", "t", "/", "a">>, <<"h", "t", "t", "p", ":", "/", "/">> }

\* srcset values given to rewriteSrcset
SrcsetInputs ==
    { <<>>, <<"a", ".", "j", "p", "g">>, <<"a", ".", "j", "p", "g", " ", "1", "x", ",", " ", "b", ".", "j", "p", "g", " ", "2", "x">>, <<" ", " ", "a", ".", "j", "p", "g", " ", " ", " ", "1", "x", " ", ",", "b", ".", "j", "p", "g", " ", "4", "8", "0", "w">>,
      <<"f", "t", "p", ":", "/", "/", "x", ".", "t", "e", "s", "t", "/", "a", ".", "j", "p", "g", " ", "1", "x", ",", " ", "b", ".", "j", "p", "g", " ", "2", "x">>, <<"a", ".", "j", "p", "g", " ", "1", "x", ",", " ">>, <<"/", "/", "c", "d", "n", ".", "t", "e", "s", "t", "/", "a", ".", "p", "n", "g", " ", "2", "x">>,
      <<"d", "a", "t", "a", ":", "i", "m", "a", "g", "e", "/", "p", "n", "g", ";", "b", "a", "s", "e", "6", "4", ",", "A", "A", "A", "A", " ", "1", "x">>, <<"h", "t", "t", "p", "s", ":", "/", "/", "o", ".", "t", "e", "s", "t", "/", "i", ",", "w", "_", "1", ".", "j", "p", "g", " ", "1", "x", ",", " ", "/", "c", ".", "j", "p", "g", " ", "2", "x">>,
      <<"#", "x", " ", "1", "x", ",", " ", "/", "d", ".", "j", "p", "g", " ", "1", "0", "0", "w", " ", "2", "x">>, <<"h", "t", "t", "p", ":", "/", "/", " ", "1", "x", ",", " ", "b", ".", "j", "p", "g", " ", "2", "x">> }

\* references of stylesheet imports
CssRefs ==
    { <<"t", "h", "e", "m", "e", ".", "c", "s", "s">>, <<"/", "c", "s", "s", "/", "a", ".", "c", "s", "s">>, <<"h", "t", "t", "p", "s", ":", "/", "/", "c", "d", "n", ".", "t", "e", "s", "t", "/", "x", ".", "c", "s", "s", "?", "v", "=", "2">>, <<"/", "/", "c", "d", "n", ".", "t", "e", "s", "t", "/", "y", ".", "c", "s", "s">>,
      <<"f", "t", "p", ":", "/", "/", "x", ".", "t", "e", "s", "t", "/", "z", ".", "c", "s", "s">>, <<"H", "T", "T", "P", "S", ":", "/", "/", "c", "d", "n", ".", "t", "e", "s", "t", "/", "u", ".", "c", "s", "s">> }

\* the two ways a stylesheet writes the import of reference x
importUrl(x) == <<"@", "i", "m", "p", "o", "r", "t", " ", "u", "r", "l", "(">> \o x \o <<")", ";">>
importQuoted(x) == <<"@", "i", "m", "p", "o", "r", "t", " ", "\"">> \o x \o <<"\"", ";">>

\* stylesheets given to rewriteCssUrls
CssInputs ==
    {importUrl(x) : x \in CssRefs} \cup {importQuoted(x) : x \in CssRefs}
    \cup { <<>>, <<"a", "{", "b", "a", "c", "k", "g", "r", "o", "u", "n", "d", ":", "u", "r", "l", "(", "i", "m", "g", "/", "b", "g", ".", "p", "n", "g", ")", "}">>, <<"a", "{", "b", "a", "c", "k", "g", "r", "o", "u", "n", "d", ":", "U", "R", "L", "(", " ", "\"", "/", "i", ".", "p", "n", "g", "\"", " ", ")", " ", "n", "o", "-", "r", "e", "p", "e", "a", "t", "}">>,
            <<"a", "{", "m", "a", "s", "k", ":", "u", "r", "l", "(", "#", "m", ")", "}", " ", "b", "{", "s", "r", "c", ":", "u", "r", "l", "(", "d", "a", "t", "a", ":", "f", "o", "n", "t", "/", "w", "o", "f", "f", "2", ";", "b", "a", "s", "e", "6", "4", ",", "A", "A", ")", "}">>,
            <<"@", "i", "m", "p", "o", "r", "t", " ", "'", "p", "r", "i", "n", "t", ".", "c", "s", "s", "'", " ", "p", "r", "i", "n", "t", ";", " ", "p", "{", "c", "o", "l", "o", "r", ":", "r", "e", "d", "}">>, <<"@", "I", "M", "P", "O", "R", "T", " ", " ", "u", "r", "l", "(", "'", "t", ".", "c", "s", "s", "'", ")", ";">>,
            <<"@", "i", "m", "p", "o", "r", "t", " ", "\"", "\"", ";">>, <<"a", "{", "b", ":", "u", "r", "l", "(", ")", "}">>, <<"@", "i", "m", "p", "o", "r", "t", " ", "u", "r", "l", "(", "h", "t", "t", "p", ":", "/", "/", ")", ";">> }

UrlInit ==
    /\ route = "none"
    /\ rawUrl = Undefined
    /\ authKey = FALSE
    /\ PipeIdle
    /\ GuardIdle
    /\ uFn \in {"toAbsoluteUrl", "rewriteNavigationLink", "rewriteSrcset", "rewriteCssUrls"}
    /\ uBase \in UrlBases
    /\ \/ uFn = "toAbsoluteUrl" /\ uValue \in AbsoluteInputs
       \/ uFn = "rewriteNavigationLink" /\ uValue \in NavInputs
       \/ uFn = "rewriteSrcset" /\ uValue \in SrcsetInputs
       \/ uFn = "rewriteCssUrls" /\ uValue \in CssInputs
    /\ uResult = NoResult
    /\ uPc = "ready"
    /\ ReaderIdle
    /\ TailIdle
    /\ LinkIdle
    /\ ClientIdle

\* toAbsoluteUrl(uBase, uValue)
ApplyToAbsoluteUrl ==
    /\ uPc = "ready"
    /\ uFn = "toAbsoluteUrl"
    /\ uResult' = toAbsoluteUrl(uBase, uValue)
    /\ uPc' = "done"
    /\ UNCHANGED <<pipeVars, guardVars, uFn, uBase, uValue, readerVars, tailVars, linkVars, clientVars>>

\* $(node).attr('href', rewriteNavigationLink(href, parsedUrl))
ApplyRewriteNavigationLink ==
    /\ uPc = "ready"
    /\ uFn = "rewriteNavigationLink"
    /\ uResult' = rewriteNavigationLink(uValue, uBase)
    /\ uPc' = "done"
    /\ UNCHANGED <<pipeVars, guardVars, uFn, uBase, uValue, readerVars, tailVars, linkVars, clientVars>>

\* $(node).attr('srcset', rewriteSrcset(parsedUrl, value))
ApplyRewriteSrcset ==
    /\ uPc = "ready"
    /\ uFn = "rewriteSrcset"
    /\ uResult' = rewriteSrcset(uBase, uValue)
    /\ uPc' = "done"
    /\ UNCHANGED <<pipeVars, guardVars, uFn, uBase, uValue, readerVars, tailVars, linkVars, clientVars>>

\* const rewritten = rewriteCssUrls(cssText, parsed)
ApplyRewriteCssUrls ==
    /\ uPc = "ready"
    /\ uFn = "rewriteCssUrls"
    /\ uResult' = rewriteCssUrls(uValue, uBase)
    /\ uPc' = "done"
    /\ UNCHANGED <<pipeVars, guardVars, uFn, uBase, uValue, readerVars, tailVars, linkVars, clientVars>>

UrlNext ==
    \/ ApplyToAbsoluteUrl
    \/ ApplyRewriteNavigationLink
    \/ ApplyRewriteSrcset
    \/ ApplyRewriteCssUrls

SpecUrl == UrlInit /\ [][UrlNext]_vars


---------------------------------------------------------------------------
(* Reader extraction: extractReaderDocument (src/unnamed/part_004).  The   *)
(* source document is the tree load() builds: the text of its first title  *)
(* element and its body, an element with nested children.                  *)

NoAttribs == [id |-> <<>>, class |-> <<>>, role |-> <<>>]
TextNode(chars) == [type |-> "text", name |-> <<>>, attribs |-> NoAttribs, data |-> chars, children |-> <<>>]
Element(name, attribs, kids) == [type |-> "tag", name |-> name, attribs |-> attribs, data |-> <<>>, children |-> kids]

\* .slice(0, 50) of the paragraph texts
MaxParagraphs == 50
\* .slice(0, 15000) of the body text
MaxBodyTextChars == 15000

\* $(node).text(): the data of the text nodes below node, in document order
RECURSIVE text(_)
text(node) ==
    IF node.type = "text" THEN node.data
    ELSE concat([k \in 1..Len(node.children) |-> text(node.children[k])])

\* s.replace(/\s+/g, ' ')
collapse(s) ==
    concat([k \in 1..Len(s) |->
              IF ~isSpace(s[k]) THEN <<s[k]>>
              ELSE IF k > 1 /\ isSpace(s[k - 1]) THEN <<>> ELSE <<" ">>])

\* s.trim() of a string whose white space is collapsed
trimCollapsed(s) ==
    LET a == IF s # <<>> /\ s[1] = " " THEN 2 ELSE 1
        b == IF Len(s) >= a /\ s[Len(s)] = " " THEN Len(s) - 1 ELSE Len(s)
    IN  SubSeq(s, a, b)

\* x.text().replace(/\s+/g, ' ').trim()
collapsedText(node) == trimCollapsed(collapse(text(node)))

VoidElements == {<<"i", "m", "g">>, <<"b", "r">>, <<"h", "r">>}

attribute(name, value) == IF value = <<>> THEN <<>> ELSE <<" ">> \o name \o <<"=", "\"">> \o value \o <<"\"">>

\* the serialisation of a node; the texts carry no character that is escaped
RECURSIVE outerHtml(_)
outerHtml(node) ==
    IF node.type = "text" THEN node.data
    ELSE LET open == <<"<">> \o node.name \o attribute(<<"i", "d">>, node.attribs.id)
                     \o attribute(<<"c", "l", "a", "s", "s">>, node.attribs.class)
                     \o attribute(<<"r", "o", "l", "e">>, node.attribs.role) \o <<">">>
         IN  IF node.name \in VoidElements THEN open
             ELSE open \o concat([k \in 1..Len(node.children) |-> outerHtml(node.children[k])])
                  \o <<"<", "/">> \o node.name \o <<">">>

\* element.html()
html(node) == concat([k \in 1..Len(node.children) |-> outerHtml(node.children[k])])

\* the elements of the subtree of node in document order, each with its ancestors
RECURSIVE elementsIn(_, _)
elementsIn(node, ancestors) ==
    IF node.type = "text" THEN <<>>
    ELSE <<[node |-> node, ancestors |-> ancestors]>>
         \o concat([k \in 1..Len(node.children) |->
                      elementsIn(node.children[k], Append(ancestors, node))])

candidateSelectors ==
    << "article", "main article", "[role=\"main\"] article", "main", "[role=\"main\"]",
       ".post-content", ".entry-content", ".article-content", "#content" >>

isNamed(node, name) == node.name = name
hasRoleMain(node) == node.attribs.role = <<"m", "a", "i", "n">>
\* the descendant combinator: an ancestor of e is a main element, has role main
underMain(e) == \E k \in 1..Len(e.ancestors) : isNamed(e.ancestors[k], <<"m", "a", "i", "n">>)
underRoleMain(e) == \E k \in 1..Len(e.ancestors) : hasRoleMain(e.ancestors[k])

\* element e matches the selector
matchesSelector(selector, e) ==
    LET isArticle == isNamed(e.node, <<"a", "r", "t", "i", "c", "l", "e">>)
        isMain(n) == isNamed(n, <<"m", "a", "i", "n">>)
    IN  CASE selector = "article" -> isArticle
          [] selector = "main article" -> isArticle /\ underMain(e)
          [] selector = "[role=\"main\"] article" -> isArticle /\ underRoleMain(e)
          [] selector = "main" -> isMain(e.node)
          [] selector = "[role=\"main\"]" -> hasRoleMain(e.node)
          [] selector = ".post-content" -> e.node.attribs.class = <<"p", "o", "s", "t", "-", "c", "o", "n", "t", "e", "n", "t">>
          [] selector = ".entry-content" -> e.node.attribs.class = <<"e", "n", "t", "r", "y", "-", "c", "o", "n", "t", "e", "n", "t">>
          [] selector = ".article-content" -> e.node.attribs.class = <<"a", "r", "t", "i", "c", "l", "e", "-", "c", "o", "n", "t", "e", "n", "t">>
          [] selector = "#content" -> e.node.attribs.id = <<"c", "o", "n", "t", "e", "n", "t">>

\* $(selector) on the document: body and the elements below it
select(body, selector) ==
    SelectSeq(elementsIn(body, <<>>), LAMBDA e : matchesSelector(selector, e))

\* the nodes the two nested loops visit, in the order they visit them
structuralMatches(body) ==
    concat([s \in 1..Len(candidateSelectors) |->
              [k \in 1..Len(select(body, candidateSelectors[s])) |->
                 select(body, candidateSelectors[s])[k].node]])

\* if (textLength > bestScore) with the comparison weakened
beatsOrTies(textLength, bestScore) == textLength >= bestScore

\* if (textLength > bestScore)
beats(textLength, bestScore) == textLength > bestScore

\* the two loops over the matches still to visit: bestHtml and bestScore at the end
RECURSIVE bestMatch(_, _, _)
bestMatch(matches, bestHtml, bestScore) ==
    IF matches = <<>> THEN [bestHtml |-> bestHtml, bestScore |-> bestScore]
    ELSE LET element == Head(matches)
             textLength == Len(collapsedText(element))
         IN  IF beats(textLength, bestScore)
             THEN bestMatch(Tail(matches), html(element), textLength)
             ELSE bestMatch(Tail(matches), bestHtml, bestScore)

PrunedNames == {<<"n", "a", "v">>, <<"a", "s", "i", "d", "e">>, <<"f", "o", "o", "t", "e", "r">>, <<"h", "e", "a", "d", "e", "r">>, <<"s", "c", "r", "i", "p", "t">>, <<"s", "t", "y", "l", "e">>, <<"n", "o", "s", "c", "r", "i", "p", "t">>, <<"f", "o", "r", "m">>}

\* body.find('nav,aside,footer,header,script,style,noscript,form').remove()
RECURSIVE remove(_)
remove(node) ==
    IF node.type = "text" THEN node
    ELSE LET kept == SelectSeq(node.children,
                               LAMBDA c : ~(c.type = "tag" /\ c.name \in PrunedNames))
         IN  [node EXCEPT !.children = [k \in 1..Len(kept) |-> remove(kept[k])]]

\* .filter(Boolean) left out
filterNothing(texts) == texts

\* .filter(Boolean)
filterBoolean(texts) == SelectSeq(texts, LAMBDA t : t # <<>>)

\* body.find('p').toArray().map(...): the texts of the paragraphs of the pruned body
paragraphTexts(body) ==
    LET found == SelectSeq(elementsIn(remove(body), <<>>),
                           LAMBDA e : e.node.name = <<"p">> /\ e.ancestors # <<>>)
    IN  [k \in 1..Len(found) |-> collapsedText(found[k].node)]

\* const paragraphs = ...
paragraphs(body) ==
    LET kept == filterBoolean(paragraphTexts(body))
    IN  slice(kept, 0, Min(Len(kept), MaxParagraphs))

placeholder == <<"N", "o", " ", "s", "e", " ", "p", "u", "d", "o", " ", "e", "x", "t", "r", "a", "e", "r", " ", "c", "o", "n", "t", "e", "n", "i", "d", "o", " ", "l", "e", "g", "i", "b", "l", "e", ".">>

paragraphMarkup(paragraph) == <<"<", "p", ">">> \o paragraph \o <<"<", "/", "p", ">">>

extractReaderDocument(source, hostname) ==
    LET fallbackTitle == IF trim(source.title) # <<>> THEN trim(source.title) ELSE hostname
        structural == bestMatch(structuralMatches(source.body), <<>>, 0).bestHtml
        found == paragraphs(source.body)
        fromParagraphs ==
            IF structural # <<>> THEN structural
            ELSE IF Len(found) > 0
            THEN concat([k \in 1..Len(found) |-> paragraphMarkup(found[k])])
            ELSE <<>>
        sliced == slice(collapsedText(source.body), 0, Min(Len(collapsedText(source.body)), MaxBodyTextChars))
        bodyText == IF sliced # <<>> THEN sliced ELSE placeholder
        bestHtml == IF fromParagraphs # <<>> THEN fromParagraphs ELSE paragraphMarkup(bodyText)
    IN  [title |-> fallbackTitle, contentHtml |-> bestHtml]

---------------------------------------------------------------------------
(* extractReaderDocument applied to single documents                       *)

Attr(id, class, role) == [id |-> id, class |-> class, role |-> role]

\* subtrees a body is made of
Blocks ==
    { Element(<<"a", "r", "t", "i", "c", "l", "e">>, NoAttribs, <<Element(<<"p">>, NoAttribs, <<TextNode(<<"A", "l", "p", "h", "a", " ", " ", "b", "e", "t", "a">>)>>)>>),
      Element(<<"a", "r", "t", "i", "c", "l", "e">>, NoAttribs, <<TextNode(<<" ", "G", "a", "m", "m", "a", " ", "z", "e", "t", "a", " ">>)>>),
      Element(<<"m", "a", "i", "n">>, NoAttribs,
              <<Element(<<"h", "1">>, NoAttribs, <<TextNode(<<"H", "e", "a", "d">>)>>),
                Element(<<"a", "r", "t", "i", "c", "l", "e">>, NoAttribs, <<TextNode(<<"I", "n", "n", "e", "r", " ", "a", "r", "t", "i", "c", "l", "e", " ", "t", "e", "x", "t">>)>>)>>),
      Element(<<"d", "i", "v">>, Attr(<<"c", "o", "n", "t", "e", "n", "t">>, <<>>, <<>>), <<>>),
      Element(<<"d", "i", "v">>, Attr(<<>>, <<"p", "o", "s", "t", "-", "c", "o", "n", "t", "e", "n", "t">>, <<>>), <<TextNode(<<"P", "o", "s", "t", " ", "b", "o", "d", "y">>)>>),
      Element(<<"s", "e", "c", "t", "i", "o", "n">>, Attr(<<>>, <<>>, <<"m", "a", "i", "n">>), <<Element(<<"i", "m", "g">>, NoAttribs, <<>>)>>),
      Element(<<"p">>, NoAttribs, <<TextNode(<<"L", "e", "a", "d", " ", " ", "p", "a", "r", "a", "g", "r", "a", "p", "h">>)>>),
      Element(<<"p">>, NoAttribs, <<TextNode(<<" ", " ">>)>>),
      Element(<<"n", "a", "v">>, NoAttribs, <<Element(<<"p">>, NoAttribs, <<TextNode(<<"M", "e", "n", "u">>)>>)>>),
      TextNode(<<" ", "l", "o", "o", "s", "e", " ", " ", " ", "t", "e", "x", "t", " ">>) }

Body(kids) == Element(<<"b", "o", "d", "y">>, NoAttribs, kids)

\* a body of n paragraphs
ParagraphsBody(n) ==
    Body([k \in 1..n |-> Element(<<"p">>, NoAttribs, <<TextNode(<<"p">> \o numberToString(k))>>)])

\* a body that is one text of n characters, every tenth a space
LongTextBody(n) == Body(<<TextNode([k \in 1..n |-> IF k % 10 = 0 THEN " " ELSE "x"])>>)

SourceBodies ==
    {Body(<<>>)} \cup {Body(<<a>>) : a \in Blocks} \cup {Body(<<a, b>>) : a, b \in Blocks}
    \cup { ParagraphsBody(MaxParagraphs), ParagraphsBody(MaxParagraphs + 1),
           LongTextBody(MaxBodyTextChars), LongTextBody(MaxBodyTextChars + 1) }

SourceTitles == {<<>>, <<" ", "M", "y", " ", "p", "a", "g", "e", " ">>}

hostname == <<"n", "e", "w", "s", ".", "t", "e", "s", "t">>

ReaderInit ==
    /\ route = "none"
    /\ rawUrl = Undefined
    /\ authKey = FALSE
    /\ PipeIdle
    /\ GuardIdle
    /\ UrlIdle
    /\ xDoc \in [title : SourceTitles, body : SourceBodies]
    /\ xResult = NoReaderDocument
    /\ xPc = "ready"
    /\ TailIdle
    /\ LinkIdle
    /\ ClientIdle

\* const readerDocument = extractReaderDocument(sourceHtml, parsedUrl)
ExtractReaderDocument ==
    /\ xPc = "ready"
    /\ xResult' = extractReaderDocument(xDoc, hostname)
    /\ xPc' = "done"
    /\ UNCHANGED <<pipeVars, guardVars, urlVars, xDoc, tailVars, linkVars, clientVars>>

ReaderNext == ExtractReaderDocument

SpecReader == ReaderInit /\ [][ReaderNext]_vars

---------------------------------------------------------------------------
(* Reader sanitizer: sanitizeReaderHtml (src/unnamed/part_004), with       *)
(* load() and .html().  An HTML string is the sequence of its tokens:      *)
(* start tags with their attributes, end tags and character runs.  Element *)
(* and attribute names are as the parser gives them, in lower case.        *)

StartTag(name, attrs) == [kind |-> "start", name |-> name, attrs |-> attrs, data |-> <<>>]
EndTag(name) == [kind |-> "end", name |-> name, attrs |-> <<>>, data |-> <<>>]
Chars(chars) == [kind |-> "chars", name |-> "", attrs |-> <<>>, data |-> chars]

attrOf(name, value) == [name |-> name, value |-> value]

HtmlText(chars) == [type |-> "text", name |-> "", attribs |-> <<>>, data |-> chars, children |-> <<>>]
HtmlElement(name, attrs, kids) == [type |-> "tag", name |-> name, attribs |-> attrs, data |-> <<>>, children |-> kids]

HtmlVoid == {"img", "br", "hr", "source", "input", "link", "meta", "base", "embed"}

\* elements that bound the search for an open p element ("button scope")
ScopeMarkers == {"marquee", "applet", "object", "table", "td", "th", "caption", "template", "button", "html"}

\* start tags that close an open p element
ClosesP ==
    {"p", "div", "article", "aside", "blockquote", "section", "main", "ul", "ol", "dl",
     "figure", "figcaption", "details", "summary", "h1", "h2", "h3", "pre", "table", "hr", "form"}

\* a frame of the stack of open elements: the element and the children it has so far
Frame(name, attrs) == [name |-> name, attrs |-> attrs, kids |-> <<>>]

\* node appended to the current node
insertNode(stack, node) ==
    [stack EXCEPT ![Len(stack)].kids = Append(@, node)]

\* the current node popped off the stack and appended to its parent
popFrame(stack) ==
    LET top == stack[Len(stack)]
    IN  insertNode(SubSeq(stack, 1, Len(stack) - 1), HtmlElement(top.name, top.attrs, top.kids))

\* the position of the open element name that is in scope, 0 when none is
inScope(stack, name) ==
    LET open == {k \in 2..Len(stack) :
                   /\ stack[k].name = name
                   /\ \A j \in (k + 1)..Len(stack) : stack[j].name \notin ScopeMarkers}
    IN  IF open = {} THEN 0 ELSE CHOOSE k \in open : \A j \in open : j <= k

\* the stack popped until it holds n frames
RECURSIVE popTo(_, _)
popTo(stack, n) == IF Len(stack) <= n THEN stack ELSE popTo(popFrame(stack), n)

\* an end tag: the elements up to the open one are popped; with none in scope
\* the tag is ignored, but </p> then stands for an empty p element
endTag(stack, name) ==
    LET k == inScope(stack, name)
    IN  IF k > 0 THEN popTo(stack, k - 1)
        ELSE IF name = "p" THEN insertNode(stack, HtmlElement("p", <<>>, <<>>))
        ELSE stack

\* a start tag: an open p is closed first by the tags that do so
startTag(stack, token) ==
    LET k == IF token.name \in ClosesP THEN inScope(stack, "p") ELSE 0
        closed == IF k > 0 THEN popTo(stack, k - 1) ELSE stack
    IN  IF token.name \in HtmlVoid
        THEN insertNode(closed, HtmlElement(token.name, token.attrs, <<>>))
        ELSE Append(closed, Frame(token.name, token.attrs))

\* tree construction over the tokens still to read
RECURSIVE construct(_, _)
construct(tokens, stack) ==
    IF tokens = <<>> THEN popTo(stack, 1)
    ELSE LET token == Head(tokens)
             next == CASE token.kind = "start" -> startTag(stack, token)
                       [] token.kind = "end" -> endTag(stack, token.name)
                       [] token.kind = "chars" -> insertNode(stack, HtmlText(token.data))
         IN  construct(Tail(tokens), next)

\* load(`<article>${contentHtml}</article>`): the children of body
loadArticle(contentHtml) ==
    construct(<<StartTag("article", <<>>)>> \o contentHtml \o <<EndTag("article")>>,
              <<Frame("body", <<>>)>>)[1].kids

\* the tokens of a node and of a sequence of nodes
RECURSIVE serialize(_)
serialize(nodes) ==
    concat([k \in 1..Len(nodes) |->
              LET node == nodes[k]
              IN  IF node.type = "text" THEN <<Chars(node.data)>>
                  ELSE IF node.name \in HtmlVoid THEN <<StartTag(node.name, node.attribs)>>
                  ELSE <<StartTag(node.name, node.attribs)>> \o serialize(node.children)
                       \o <<EndTag(node.name)>>])

\* adjacent character runs are one run of the string; an empty run is no token
RECURSIVE mergeChars(_)
mergeChars(tokens) ==
    IF tokens = <<>> THEN <<>>
    ELSE IF Head(tokens).kind = "chars" /\ Head(tokens).data = <<>> THEN mergeChars(Tail(tokens))
    ELSE IF Len(tokens) >= 2 /\ Head(tokens).kind = "chars" /\ tokens[2].kind = "chars"
    THEN mergeChars(<<Chars(Head(tokens).data \o tokens[2].data)>> \o SubSeq(tokens, 3, Len(tokens)))
    ELSE <<Head(tokens)>> \o mergeChars(Tail(tokens))

\* the elements of a forest in document order
RECURSIVE elementsOf(_)
elementsOf(nodes) ==
    concat([k \in 1..Len(nodes) |->
              IF nodes[k].type = "text" THEN <<>>
              ELSE <<nodes[k]>> \o elementsOf(nodes[k].children)])

\* $('article').html() ?? '': the inner HTML of the first article element
articleHtml(nodes) ==
    LET articles == SelectSeq(elementsOf(nodes), LAMBDA e : e.name = "article")
    IN  IF articles = <<>> THEN <<>> ELSE mergeChars(serialize(articles[1].children))

ALLOWED_READER_TAGS ==
    {"a", "abbr", "article", "aside", "b", "blockquote", "br", "caption", "cite", "code",
     "dd", "del", "details", "dfn", "div", "dl", "dt", "em", "figcaption", "figure",
     "h1", "h2", "h3", "h4", "h5", "h6", "hr", "i", "img", "li", "main", "mark", "ol",
     "p", "picture", "pre", "q", "s", "section", "small", "source", "span", "strong",
     "sub", "summary", "sup", "table", "tbody", "td", "tfoot", "th", "thead", "time",
     "tr", "u", "ul"}

ALLOWED_READER_ATTRS ==
    {<<"a", "l", "t">>, <<"c", "i", "t", "e">>, <<"c", "o", "l", "s", "p", "a", "n">>, <<"d", "a", "t", "e", "t", "i", "m", "e">>, <<"d", "e", "c", "o", "d", "i", "n", "g">>, <<"h", "e", "i", "g", "h", "t">>, <<"h", "r", "e", "f">>,
     <<"l", "o", "a", "d", "i", "n", "g">>, <<"r", "o", "w", "s", "p", "a", "n">>, <<"s", "i", "z", "e", "s">>, <<"s", "r", "c">>, <<"s", "r", "c", "s", "e", "t">>, <<"s", "c", "o", "p", "e">>, <<"t", "a", "r", "g", "e", "t">>,
     <<"t", "i", "t", "l", "e">>, <<"w", "i", "d", "t", "h">>, <<"r", "e", "l">>}

RemovedTags ==
    {"script", "style", "iframe", "object", "embed", "form", "button", "input",
     "textarea", "select", "link", "meta", "base"}

\* $('script,style,...').remove()
RECURSIVE removeTags(_)
removeTags(nodes) ==
    LET kept == SelectSeq(nodes, LAMBDA n : ~(n.type = "tag" /\ n.name \in RemovedTags))
    IN  [k \in 1..Len(kept) |->
           IF kept[k].type = "text" THEN kept[k]
           ELSE [kept[k] EXCEPT !.children = removeTags(@)]]

\* the first $('*').each: an element outside the allow-list is replaced by its contents
RECURSIVE unwrapTags(_)
unwrapTags(nodes) ==
    concat([k \in 1..Len(nodes) |->
              IF nodes[k].type = "text" THEN <<nodes[k]>>
              ELSE IF nodes[k].name \notin ALLOWED_READER_TAGS THEN unwrapTags(nodes[k].children)
              ELSE <<[nodes[k] EXCEPT !.children = unwrapTags(@)]>>])

\* the attribute stays: the three tests of attrs.forEach
keepsAttr(a) ==
    LET value == trim(a.value)
        normalizedAttr == toLowerCase(a.name)
    IN  /\ ~startsWith(normalizedAttr, <<"o", "n">>)
        /\ normalizedAttr \in ALLOWED_READER_ATTRS
        /\ ~(/\ normalizedAttr \in {<<"h", "r", "e", "f">>, <<"s", "r", "c">>, <<"x", "l", "i", "n", "k", ":", "h", "r", "e", "f">>}
             /\ startsWith(toLowerCase(value), <<"j", "a", "v", "a", "s", "c", "r", "i", "p", "t", ":">>))

\* the second $('*').each
RECURSIVE cleanAttrs(_)
cleanAttrs(nodes) ==
    [k \in 1..Len(nodes) |->
       IF nodes[k].type = "text" THEN nodes[k]
       ELSE [nodes[k] EXCEPT !.attribs = SelectSeq(@, keepsAttr),
                             !.children = cleanAttrs(@)]]

\* the document as load() gives it, html > (head, body > nodes), after both passes:
\* html, head and body are outside the allow-list and are replaced by their contents
sanitizeReaderHtml(contentHtml) ==
    articleHtml(cleanAttrs(unwrapTags(removeTags(loadArticle(contentHtml)))))

---------------------------------------------------------------------------
(* Reader route: GET from the extracted content to the response            *)
(* (src/unnamed/part_004:515-558)                                          *)

\* $(node).attr(name): the value, undefined when the element has no such attribute
attr(node, name) ==
    LET at == {k \in 1..Len(node.attribs) : node.attribs[k].name = name}
    IN  IF at = {} THEN Undefined ELSE Str(node.attribs[CHOOSE k \in at : TRUE].value)

\* $(node).attr(name, value)
setAttr(node, name, value) ==
    IF attr(node, name).def
    THEN [node EXCEPT !.attribs = [k \in 1..Len(@) |->
                                     IF @[k].name = name THEN attrOf(name, value) ELSE @[k]]]
    ELSE [node EXCEPT !.attribs = Append(@, attrOf(name, value))]

PLACEHOLDER_DATA_URI_PREFIXES ==
    {<<"d", "a", "t", "a", ":", ",">>, <<"d", "a", "t", "a", ":", "i", "m", "a", "g", "e", "/", "g", "i", "f", ";", "b", "a", "s", "e", "6", "4", ",", "r", "0", "l", "g", "o", "d", "l", "h">>, <<"d", "a", "t", "a", ":", "i", "m", "a", "g", "e", "/", "s", "v", "g", "+", "x", "m", "l", ";", "b", "a", "s", "e", "6", "4", ",", "p", "h", "n", "2", "z", "y", "b", "4", "b", "w", "w", "+">>}

isPlaceholderMediaValue(value) ==
    LET normalized == toLowerCase(trim(value))
    IN  \/ normalized = <<>> \/ normalized = <<"#">> \/ normalized = <<"a", "b", "o", "u", "t", ":", "b", "l", "a", "n", "k">>
        \/ startsWith(normalized, <<"j", "a", "v", "a", "s", "c", "r", "i", "p", "t", ":">>)
        \/ \E prefix \in PLACEHOLDER_DATA_URI_PREFIXES : startsWith(normalized, prefix)

\* promoteLazyMediaAttrs for one element and one attribute
promoted(node, name) ==
    LET current == trim(attr(node, name).v)
        lazy == trim(attr(node, <<"d", "a", "t", "a", "-">> \o name).v)
    IN  IF node.name \in {"img", "source"} /\ lazy # <<>> /\ isPlaceholderMediaValue(current)
        THEN setAttr(node, name, lazy) ELSE node

promoteLazyMediaAttrs(node) == promoted(promoted(node, <<"s", "r", "c">>), <<"s", "r", "c", "s", "e", "t">>)

\* rewriteAssetUrl($, selector, attr, baseUrl) for one element the selector matches:
\* the new value, or what it leaves the attribute at
rewriteAssetUrl(node, name, baseUrl) ==
    LET current == trim(attr(node, name).v)
        absolute == toAbsoluteUrl(baseUrl, current)
    IN  IF current = <<>> THEN Url(attr(node, name).v)
        ELSE IF absolute.kind = "throw" THEN Thrown
        ELSE IF absolute.kind = "null" THEN Url(attr(node, name).v)
        ELSE Url(toProxyUrl(absolute.v))

\* the attribute of the element one of the rewriting loops takes, and what it
\* makes of it; kind "none" when no loop takes the attribute
rewritten(node, a, baseUrl) ==
    CASE a.name = <<"s", "r", "c">> /\ node.name \in {"img", "source", "audio"} ->
           rewriteAssetUrl(node, a.name, baseUrl)
      [] a.name = <<"p", "o", "s", "t", "e", "r">> /\ node.name = "video" ->
           rewriteAssetUrl(node, a.name, baseUrl)
      [] a.name = <<"s", "r", "c", "s", "e", "t">> /\ node.name \in {"img", "source"} /\ a.value # <<>> ->
           rewriteSrcset(baseUrl, a.value)
      [] a.name = <<"h", "r", "e", "f">> /\ node.name = "a" /\ a.value # <<>> ->
           rewriteNavigationLink(a.value, baseUrl)
      [] OTHER -> NoResult

\* one of the loops throws on an element of the forest
RECURSIVE rewriteThrows(_, _)
rewriteThrows(nodes, baseUrl) ==
    \E k \in 1..Len(nodes) :
       /\ nodes[k].type = "tag"
       /\ \/ LET node == promoteLazyMediaAttrs(nodes[k])
             IN  \E j \in 1..Len(node.attribs) : rewritten(node, node.attribs[j], baseUrl).kind = "throw"
          \/ rewriteThrows(nodes[k].children, baseUrl)

\* the forest after promoteLazyMediaAttrs and the rewriting loops
RECURSIVE rewriteForest(_, _)
rewriteForest(nodes, baseUrl) ==
    [k \in 1..Len(nodes) |->
       IF nodes[k].type = "text" THEN nodes[k]
       ELSE LET node == promoteLazyMediaAttrs(nodes[k])
            IN  [node EXCEPT
                   !.attribs = [j \in 1..Len(@) |->
                                  LET r == rewritten(node, @[j], baseUrl)
                                  IN  IF r.kind = "string" THEN attrOf(@[j].name, r.v) ELSE @[j]],
                   !.children = rewriteForest(@, baseUrl)]]

---------------------------------------------------------------------------
(* The reader route's content, from extraction to the response, for single *)
(* fragments                                                               *)

\* the content extractReaderDocument returned
Fragments ==
    { <<>>,
      <<Chars(<<"p", "l", "a", "i", "n", " ", "t", "e", "x", "t">>)>>,
      <<StartTag("p", <<>>), Chars(<<"H", "e", "l", "l", "o">>), EndTag("p")>>,
      <<StartTag("p", <<>>), StartTag("marquee", <<>>), StartTag("p", <<>>), Chars(<<"x">>),
        EndTag("p"), EndTag("marquee"), EndTag("p")>>,
      <<StartTag("script", <<>>), Chars(<<"a", "l", "e", "r", "t", "(", "1", ")">>), EndTag("script"),
        StartTag("p", <<>>), Chars(<<"t">>), EndTag("p")>>,
      <<StartTag("div", <<attrOf(<<"o", "n", "c", "l", "i", "c", "k">>, <<"x", "(", ")">>), attrOf(<<"c", "l", "a", "s", "s">>, <<"c">>), attrOf(<<"t", "i", "t", "l", "e">>, <<"T">>)>>),
        Chars(<<"t", "e", "x", "t">>), EndTag("div")>>,
      <<StartTag("a", <<attrOf(<<"h", "r", "e", "f">>, <<"j", "a", "v", "a", "s", "c", "r", "i", "p", "t", ":", "a", "l", "e", "r", "t", "(", "1", ")">>)>>), Chars(<<"l", "i", "n", "k">>), EndTag("a")>>,
      <<StartTag("a", <<attrOf(<<"h", "r", "e", "f">>, <<" ", " ", "J", "a", "v", "a", "S", "c", "r", "i", "p", "t", ":", "a", "l", "e", "r", "t", "(", "1", ")">>)>>), Chars(<<"l", "i", "n", "k">>), EndTag("a")>>,
      <<StartTag("a", <<attrOf(<<"h", "r", "e", "f">>, <<"j", "a", "v", "a", "\t">> \o <<"s", "c", "r", "i", "p", "t", ":", "a", "l", "e", "r", "t", "(", "1", ")">>)>>),
        Chars(<<"l", "i", "n", "k">>), EndTag("a")>>,
      <<StartTag("div", <<attrOf(<<"s", "r", "c">>, <<"j", "a", "v", "a", "\t">> \o <<"s", "c", "r", "i", "p", "t", ":", "a", "l", "e", "r", "t", "(", "1", ")">>)>>),
        Chars(<<"t", "e", "x", "t">>), EndTag("div")>>,
      <<StartTag("span", <<attrOf(<<"s", "r", "c">>, <<"j", "a", "v", "a", "s", "c", "r", "i", "p", "t", ":", "a", "l", "e", "r", "t", "(", "1", ")">>), attrOf(<<"x", "l", "i", "n", "k", ":", "h", "r", "e", "f">>, <<"j", "a", "v", "a", "s", "c", "r", "i", "p", "t", ":", "x">>)>>),
        Chars(<<"t", "e", "x", "t">>), EndTag("span")>>,
      <<StartTag("img", <<attrOf(<<"s", "r", "c">>, <<"/", "i", ".", "p", "n", "g">>), attrOf(<<"a", "l", "t">>, <<"A">>), attrOf(<<"o", "n", "e", "r", "r", "o", "r">>, <<"x", "(", ")">>)>>)>>,
      <<StartTag("img", <<attrOf(<<"s", "r", "c">>, <<"d", "a", "t", "a", ":", ",">>), attrOf(<<"d", "a", "t", "a", "-", "s", "r", "c">>, <<"l", "a", "z", "y", ".", "p", "n", "g">>)>>)>>,
      <<StartTag("img", <<attrOf(<<"s", "r", "c", "s", "e", "t">>, <<"a", ".", "j", "p", "g", " ", "1", "x", ",", " ", "b", ".", "j", "p", "g", " ", "2", "x">>)>>)>>,
      <<StartTag("img", <<attrOf(<<"s", "r", "c">>, <<"h", "t", "t", "p", ":", "/", "/">>)>>)>>,
      <<StartTag("x-card", <<>>), StartTag("span", <<>>), Chars(<<"t">>), EndTag("span"), EndTag("x-card")>>,
      <<StartTag("font", <<>>), Chars(<<"a">>), StartTag("center", <<>>), StartTag("b", <<>>), Chars(<<"x">>),
        EndTag("b"), EndTag("center"), Chars(<<"b">>), EndTag("font")>>,
      <<StartTag("iframe", <<attrOf(<<"s", "r", "c">>, <<"/", "/", "a", "d", "s", ".", "t", "e", "s", "t", "/">>)>>), EndTag("iframe"),
        StartTag("form", <<>>), StartTag("input", <<>>), StartTag("p", <<>>), Chars(<<"f">>), EndTag("p"), EndTag("form")>>,
      <<StartTag("a", <<attrOf(<<"h", "r", "e", "f">>, <<"/", "n", "e", "x", "t">>), attrOf(<<"t", "a", "r", "g", "e", "t">>, <<"_", "b", "l", "a", "n", "k">>)>>), Chars(<<"n">>), EndTag("a")>>,
      <<StartTag("video", <<attrOf(<<"p", "o", "s", "t", "e", "r">>, <<"/", "p", ".", "p", "n", "g">>)>>),
        StartTag("source", <<attrOf(<<"s", "r", "c">>, <<"v", ".", "m", "p", "4">>)>>), EndTag("video")>>,
      <<Chars(<<"a">>), EndTag("article"), StartTag("p", <<>>), Chars(<<"a", "f", "t", "e", "r">>), EndTag("p")>>,
      <<StartTag("article", <<>>), StartTag("p", <<>>), Chars(<<"n", "e", "s", "t", "e", "d">>), EndTag("p"), EndTag("article")>>,
      <<EndTag("p")>>,
      <<StartTag("p", <<>>), Chars(<<"a">>), StartTag("div", <<>>), Chars(<<"b">>), EndTag("div"), EndTag("p")>>,
      <<StartTag("table", <<>>), StartTag("tr", <<>>), StartTag("td", <<attrOf(<<"c", "o", "l", "s", "p", "a", "n">>, <<"2">>), attrOf(<<"s", "t", "y", "l", "e">>, <<"x">>)>>),
        StartTag("p", <<>>), Chars(<<"c">>), EndTag("p"), EndTag("td"), EndTag("tr"), EndTag("table")>>,
      <<StartTag("li", <<>>), StartTag("applet", <<>>), StartTag("p", <<>>), Chars(<<"x">>), EndTag("p"),
        EndTag("applet"), EndTag("li")>> }

TailInit ==
    /\ route = "none"
    /\ rawUrl = Undefined
    /\ authKey = FALSE
    /\ PipeIdle
    /\ GuardIdle
    /\ UrlIdle
    /\ ReaderIdle
    /\ LinkIdle
    /\ ClientIdle
    /\ zHtml \in Fragments
    /\ zBase \in UrlBases
    /\ zArticle = <<>>
    /\ zOnce = <<>>
    /\ zTwice = <<>>
    /\ zPc = "ready"

\* load(`<article>${readerDocument.contentHtml}</article>`), promoteLazyMediaAttrs and
\* the rewriting loops, up to the await of translateTextNodes; an exception of a
\* loop leaves GET
ReaderRewrite ==
    /\ zPc = "ready"
    /\ LET loaded == loadArticle(zHtml)
       IN  IF rewriteThrows(loaded, zBase)
           THEN zPc' = "failed" /\ UNCHANGED zArticle
           ELSE /\ zArticle' = articleHtml(rewriteForest(loaded, zBase))
                /\ zPc' = "rewritten"
    /\ UNCHANGED <<pipeVars, guardVars, urlVars, readerVars, zHtml, zBase, zOnce, zTwice, linkVars, clientVars>>

\* contentHtml: sanitizeReaderHtml($('article').html() ?? ''), and Response.json(payload)
ReaderRespond ==
    /\ zPc = "rewritten"
    /\ zOnce' = sanitizeReaderHtml(zArticle)
    /\ zPc' = "responded"
    /\ UNCHANGED <<pipeVars, guardVars, urlVars, readerVars, zHtml, zBase, zArticle, zTwice, linkVars, clientVars>>

\* sanitizeReaderHtml applied to its own output
SanitizeAgain ==
    /\ zPc = "responded"
    /\ zTwice' = sanitizeReaderHtml(zOnce)
    /\ zPc' = "twice"
    /\ UNCHANGED <<pipeVars, guardVars, urlVars, readerVars, zHtml, zBase, zArticle, zOnce, linkVars, clientVars>>

TailNext ==
    \/ ReaderRewrite
    \/ ReaderRespond
    \/ SanitizeAgain

SpecTail == TailInit /\ [][TailNext]_vars

---------------------------------------------------------------------------
(* Related links: extractRelevantLinks                                     *)

\* An anchor of the page as the loop body reads it: normalizedUrl is
\* absolute.toString() (0 when one of the early returns on the href, the
\* protocol or the host is taken), title the collapsed text with its length,
\* excluded whether hasExcludedToken holds for the title or the URL, and the
\* outcomes of the title-case test and of the four closest() lookups.
Anchor(url, title, length, flags) ==
    [normalizedUrl |-> url, title |-> title, length |-> length, excluded |-> "excluded" \in flags,
     titleCase |-> "titleCase" \in flags, article |-> "article" \in flags, main |-> "main" \in flags,
     heading |-> "heading" \in flags, content |-> "content" \in flags]

\* the anchor passes every early return of the loop body
qualifies(anchor) == anchor.normalizedUrl # 0 /\ ~(anchor.length < 25 \/ anchor.excluded)

computeScore(anchor) ==
    LET lengthScore == Min(anchor.length, 180)
        titleCaseBonus == IF anchor.titleCase THEN 25 ELSE 0
        contextBonus == (IF anchor.article THEN 45 ELSE 0) + (IF anchor.main THEN 35 ELSE 0)
                        + (IF anchor.heading THEN 50 ELSE 0) + (IF anchor.content THEN 40 ELSE 0)
    IN  lengthScore + titleCaseBonus + contextBonus

\* score >= existing.score
outscoresOrTies(score, existing) == score >= existing.score

\* score > existing.score
outscores(score, existing) == score > existing.score

\* byUrl.set(normalizedUrl, { title, score }): a Map keeps the position of a key
\* it already holds
mapSet(byUrl, url, title, score) ==
    LET entry == [url |-> url, title |-> title, score |-> score]
    IN  IF \E k \in 1..Len(byUrl) : byUrl[k].url = url
        THEN [k \in 1..Len(byUrl) |-> IF byUrl[k].url = url THEN entry ELSE byUrl[k]]
        ELSE Append(byUrl, entry)

\* the callback of $('a[href]').each
eachAnchor(byUrl, anchor) ==
    LET score == computeScore(anchor)
        found == {k \in 1..Len(byUrl) : byUrl[k].url = anchor.normalizedUrl}
    IN  IF ~qualifies(anchor) THEN byUrl
        ELSE IF found = {} \/ outscores(score, byUrl[CHOOSE k \in found : TRUE])
        THEN mapSet(byUrl, anchor.normalizedUrl, anchor.title, score)
        ELSE byUrl

RECURSIVE collect(_, _)
collect(byUrl, anchors) ==
    IF anchors = <<>> THEN byUrl ELSE collect(eachAnchor(byUrl, Head(anchors)), Tail(anchors))

\* .sort((a, b) => b[1].score - a[1].score): Array.prototype.sort is stable
RECURSIVE sortByScore(_)
sortByScore(entries) ==
    IF entries = <<>> THEN <<>>
    ELSE LET best == CHOOSE k \in 1..Len(entries) :
                       \A j \in 1..Len(entries) :
                         \/ entries[k].score > entries[j].score
                         \/ entries[k].score = entries[j].score /\ k <= j
         IN  <<entries[best]>> \o sortByScore(SubSeq(entries, 1, best - 1) \o SubSeq(entries, best + 1, Len(entries)))

MaxLinks == 15

extractRelevantLinks(anchors) ==
    LET sorted == slice(sortByScore(collect(<<>>, anchors)), 0, Min(Len(collect(<<>>, anchors)), MaxLinks))
    IN  [k \in 1..Len(sorted) |-> [title |-> sorted[k].title, url |-> sorted[k].url]]

\* Pages of n anchors: the URL of the i-th anchor and its title length follow one
\* of a few patterns, so that URLs repeat with higher, lower and equal scores,
\* more than 15 distinct URLs qualify, and some anchors fail an early return.
MaxAnchors == 22

UrlPatterns == {"distinct", "pairs", "cycle"}

LengthPatterns == {"same", "rising", "falling", "mixed", "short"}

urlOf(pattern, i) ==
    CASE pattern = "distinct" -> i
      [] pattern = "pairs" -> (i + 1) \div 2
      [] OTHER -> IF i % 7 = 0 THEN 0 ELSE (i % 19) + 1

lengthOf(pattern, i) ==
    CASE pattern = "same" -> 30
      [] pattern = "rising" -> 25 + i
      [] pattern = "falling" -> 200 - 2 * i
      [] pattern = "mixed" -> 25 + ((i * 7) % 5)
      [] OTHER -> 23 + (i % 3)

flagsOf(pattern, i) ==
    CASE pattern = "mixed" -> (IF i % 2 = 0 THEN {"article", "main"} ELSE {}) \cup (IF i % 5 = 0 THEN {"excluded"} ELSE {})
      [] pattern = "rising" -> IF i % 3 = 0 THEN {"heading", "titleCase"} ELSE {"content"}
      [] OTHER -> {}

Page(n, urls, lengths) == [i \in 1..n |-> Anchor(urlOf(urls, i), i, lengthOf(lengths, i), flagsOf(lengths, i))]

Pages == {Page(n, urls, lengths) : n \in 0..MaxAnchors, urls \in UrlPatterns, lengths \in LengthPatterns}

LinkInit ==
    /\ route = "none"
    /\ rawUrl = Undefined
    /\ authKey = FALSE
    /\ PipeIdle
    /\ GuardIdle
    /\ UrlIdle
    /\ ReaderIdle
    /\ TailIdle
    /\ ClientIdle
    /\ lAnchors \in Pages
    /\ lLinks = <<>>
    /\ lPc = "ready"

ExtractRelevantLinks ==
    /\ lPc = "ready"
    /\ lLinks' = extractRelevantLinks(lAnchors)
    /\ lPc' = "done"
    /\ UNCHANGED <<pipeVars, guardVars, urlVars, readerVars, tailVars, lAnchors, clientVars>>

LinkNext == ExtractRelevantLinks

SpecLinks == LinkInit /\ [][LinkNext]_vars

---------------------------------------------------------------------------
(* The translated-page client: TranslatedClient and LangPage.  Each run of *)
(* the effect has its own cancelled flag and its own request; React runs   *)
(* the cleanup of the previous run and the next run before it renders any  *)
(* state update made in between.                                           *)

MaxRequests == 3

\* apiUrl for two values of rawUrl
ApiUrls == {1, 2}

\* what fetch(apiUrl) resolves with: response.ok with a JSON text or with a text
\* that is not JSON, or an error status with a text or with an empty text
ResponseKinds == {"json", "not json", "failure", "empty failure"}

\* useState<TranslationResult | null>(null) and useState('')
NullResult == [from |-> 0, value |-> "null"]

NoError == [from |-> 0, text |-> ""]

\* let cancelled = false, and the call of loadTranslatedHtml up to await fetch(apiUrl)
Request(apiUrl) == [apiUrl |-> apiUrl, cancelled |-> FALSE, pc |-> "fetching", response |-> "none"]

\* return () => { cancelled = true; } of the last run of the effect
cleanup(requests) ==
    IF requests = <<>> THEN requests ELSE [requests EXCEPT ![Len(requests)].cancelled = TRUE]

\* a flag that is never set
neverCancelled(request) == FALSE

\* if (cancelled)
isCancelled(request) == request.cancelled

\* the effect runs for apiUrl: the previous run is cleaned up, both states are
\* reset and the request is sent
RunEffect(apiUrl) ==
    /\ Len(cRequests) < MaxRequests
    /\ cApiUrl' = apiUrl
    /\ cRequests' = Append(cleanup(cRequests), Request(apiUrl))
    /\ cError' = NoError
    /\ cResult' = NullResult

ClientInit ==
    /\ route = "none"
    /\ rawUrl = Undefined
    /\ authKey = FALSE
    /\ PipeIdle
    /\ GuardIdle
    /\ UrlIdle
    /\ ReaderIdle
    /\ TailIdle
    /\ LinkIdle
    /\ cMounted = FALSE
    /\ cApiUrl \in ApiUrls
    /\ cRequests = <<>>
    /\ cResult = NullResult
    /\ cError = NoError

\* the component is mounted and the effect runs for the first time
Mount ==
    /\ ~cMounted
    /\ cRequests = <<>>
    /\ cMounted' = TRUE
    /\ RunEffect(cApiUrl)
    /\ UNCHANGED <<pipeVars, guardVars, urlVars, readerVars, tailVars, linkVars>>

\* the component is rendered with another rawUrl: [apiUrl] changed
Navigate ==
    /\ cMounted
    /\ \E u \in ApiUrls \ {cApiUrl} : RunEffect(u)
    /\ UNCHANGED <<pipeVars, guardVars, urlVars, readerVars, tailVars, linkVars, cMounted>>

\* the component unmounts: the cleanup runs
Unmount ==
    /\ cMounted
    /\ cMounted' = FALSE
    /\ cRequests' = cleanup(cRequests)
    /\ UNCHANGED <<pipeVars, guardVars, urlVars, readerVars, tailVars, linkVars, cApiUrl, cResult, cError>>

\* await fetch(apiUrl) resolves
FetchResolves ==
    /\ \E i \in 1..Len(cRequests), kind \in ResponseKinds :
         /\ cRequests[i].pc = "fetching"
         /\ cRequests' = [cRequests EXCEPT ![i].pc = "reading", ![i].response = kind]
    /\ UNCHANGED <<pipeVars, guardVars, urlVars, readerVars, tailVars, linkVars, cMounted, cApiUrl, cResult, cError>>

\* await fetch(apiUrl) or await response.text() rejects: loadTranslatedHtml ends
\* with the rejection and sets nothing
RequestRejects ==
    /\ \E i \in 1..Len(cRequests) :
         /\ cRequests[i].pc \in {"fetching", "reading"}
         /\ cRequests' = [cRequests EXCEPT ![i].pc = "rejected"]
    /\ UNCHANGED <<pipeVars, guardVars, urlVars, readerVars, tailVars, linkVars, cMounted, cApiUrl, cResult, cError>>

\* await response.text() resolves: the rest of loadTranslatedHtml.  A state
\* setter of an unmounted component changes nothing, and every unmounted
\* component has run its cleanup.
TextResolves ==
    /\ \E i \in 1..Len(cRequests) :
         LET request == cRequests[i]
         IN  /\ request.pc = "reading"
             /\ cRequests' = [cRequests EXCEPT ![i].pc = "done"]
             /\ IF isCancelled(request) \/ ~cMounted
                THEN UNCHANGED <<cResult, cError>>
                ELSE IF request.response \in {"failure", "empty failure"}
                THEN /\ cError' = [from |-> i,
                                   text |-> IF request.response = "failure" THEN "content"
                                            ELSE "No se pudo traducir la URL."]
                     /\ UNCHANGED cResult
                ELSE IF request.response = "json"
                THEN /\ cResult' = [from |-> i, value |-> "parsed"]
                     /\ UNCHANGED cError
                ELSE /\ cError' = [from |-> i, text |-> "La respuesta de traduccion no tuvo un formato valido."]
                     /\ UNCHANGED cResult
    /\ UNCHANGED <<pipeVars, guardVars, urlVars, readerVars, tailVars, linkVars, cMounted, cApiUrl>>

ClientNext ==
    \/ Mount
    \/ Navigate
    \/ Unmount
    \/ FetchResolves
    \/ RequestRejects
    \/ TextResolves

SpecClient == ClientInit /\ [][ClientNext]_vars

---------------------------------------------------------------------------
(* Claims                                                                  *)

BlockedText == <<"H", "o", "s", "t", " ", "b", "l", "o", "q", "u", "e", "a", "d", "o", " ", "p", "o", "r", " ", "s", "e", "g", "u", "r", "i", "d", "a", "d", ".">>
NotAllowedText == <<"H", "o", "s", "t", " ", "n", "o", " ", "p", "e", "r", "m", "i", "t", "i", "d", "o", ".", " ", "/", "a", "p", "i", "/", "p", "r", "o", "x", "y", " ", "s", "o", "l", "o", " ", "p", "e", "r", "m", "i", "t", "e", " ", "h", "o", "s", "t", "s", " ", "e", "n", " ", "a", "l", "l", "o", "w", "l", "i", "s", "t", ".">>
HtmlTooBigText == <<"E", "l", " ", "H", "T", "M", "L", " ", "e", "x", "c", "e", "d", "e", " ", "2", "M", "B", ".">>
PdfTooBigText == <<"E", "l", " ", "P", "D", "F", " ", "e", "x", "c", "e", "d", "e", " ", "1", "0", "M", "B", ".">>

\* C1: a request to the page-translation or PDF-text endpoint that validation
\* rejects (url missing or unparseable or not http/https: 400; host matched by
\* the guard: 403 "bloqueado") is answered with no outbound fetch started; the
\* metadata URL http://169.254.169.254/latest/meta-data gets 403 and no fetch.
C1_RejectedBeforeFetch ==
    route \in PageRoutes \cup {"pdf"} =>
      /\ status \in {400, 403} => fetches = 0
      /\ pc # "start" =>
           /\ (~rawUrl.def \/ rawUrl.v = <<>>) => status = 400 /\ fetches = 0
           /\ rawUrl \in {Str(NotAUrl), Str(FtpUrl), Str(JavascriptUrl)} =>
                status = 400 /\ fetches = 0
           /\ rawUrl \in {Str(MetaDataUrl), Str(LocalhostUrl)} =>
                status = 403 /\ message = BlockedText /\ fetches = 0

C1_Witness ==
    /\ route = "translate"
    /\ rawUrl = Str(MetaDataUrl)
    /\ pc = "responded"
    /\ status = 403
    /\ fetches = 0

\* C2: every host guard blocks localhost, 127.0.0.1, 10.0.0.5, 192.168.1.1,
\* 169.254.1.1, ::1 and fd00::1, and blocks neither example.com nor
\* en.wikipedia.org.
C2_EveryGuardClassifies ==
    gPc = "done" =>
      /\ gHost \in { <<"l", "o", "c", "a", "l", "h", "o", "s", "t">>, <<"1", "2", "7", ".", "0", ".", "0", ".", "1">>, <<"1", "0", ".", "0", ".", "0", ".", "5">>, <<"1", "9", "2", ".", "1", "6", "8", ".", "1", ".", "1">>,
                     <<"1", "6", "9", ".", "2", "5", "4", ".", "1", ".", "1">>, <<":", ":", "1">>, <<"f", "d", "0", "0", ":", ":", "1">> } => gResult
      /\ gHost \in { <<"e", "x", "a", "m", "p", "l", "e", ".", "c", "o", "m">>, <<"e", "n", ".", "w", "i", "k", "i", "p", "e", "d", "i", "a", ".", "o", "r", "g">> } => ~gResult

\* C3: the asset proxy fetches only for a host that is not blocked and is on the
\* allow-list; a blocked host gets 403 "bloqueado" whether or not it is on the
\* allow-list (the block check comes first), a host neither blocked nor
\* allow-listed gets 403 with the other message.
C3_ProxyFetchesAllowedOnly ==
    LET p == ParseUrl(rawUrl.v)
        valid == rawUrl.def /\ p.ok /\ p.protocol \in HttpProtocols
    IN  route = "proxy" =>
          /\ fetches > 0 => valid /\ ~isBlockedHost(p.hostname) /\ isAllowedHost(p.hostname)
          /\ pc # "start" /\ valid /\ isBlockedHost(p.hostname) =>
               status = 403 /\ message = BlockedText /\ fetches = 0
          /\ pc # "start" /\ valid /\ ~isBlockedHost(p.hostname) /\ ~isAllowedHost(p.hostname) =>
               status = 403 /\ message = NotAllowedText /\ fetches = 0
          /\ pc # "start" /\ rawUrl \in {Str(FdWikipediaUrl), Str(LocalhostUrl)} =>
               status = 403 /\ message = BlockedText
          /\ pc # "start" /\ rawUrl = Str(NewsUrl) =>
               status = 403 /\ message = NotAllowedText
          /\ rawUrl \in {Str(ExampleUrl), Str(WikipediaUrl)} => status # 403
          /\ BlockedText # NotAllowedText

C3_Witness ==
    /\ route = "proxy"
    /\ rawUrl = Str(FdWikipediaUrl)
    /\ isAllowedHost(ParseUrl(rawUrl.v).hostname)
    /\ pc = "responded"
    /\ status = 403
    /\ message = BlockedText

\* C4: during an HTML fetch the bytes buffered never exceed 2 MiB, whatever the
\* Content-Length header said; the chunk that takes the total above 2 MiB is not
\* buffered, fails the fetch with the size error (502) and no read follows; a
\* total of at most 2 MiB, exactly 2 MiB included, never gives the size error.
C4_HtmlBufferBounded ==
    route \in PageRoutes =>
      /\ Buffered <= MAX_BYTES
      /\ pc \in {"streaming", "fetched"} => total = Buffered
      /\ message = HtmlTooBigText =>
           /\ pc = "responded"
           /\ status = 502
           /\ total > MAX_BYTES
           /\ Buffered < total
           /\ Len(chunks) < reads
           /\ ~ENABLED HtmlRead
      /\ pc = "fetched" => status = 0 /\ message = <<>>

C4_Witness ==
    /\ route \in PageRoutes
    /\ upstream.contentLength = [kind |-> "number", n |-> 500000]
    /\ message = HtmlTooBigText
    /\ total = 3 * 1024 * 1024
    /\ Buffered = MAX_BYTES

\* C5: the timer of a page fetch is armed when the request starts; once it has
\* fired during the request or the streaming, the fetch is aborted and the request
\* can only end with 502, with no document loaded and no translation call made;
\* whichever way the fetch ends (success, upstream error, size error, abort) the
\* timer is cleared.
C5_TimerGuardsFetch ==
    route \in PageRoutes =>
      /\ fetches > 0 => timer # "unset"
      /\ pc \in {"fetching", "streaming"} => timer \in {"armed", "fired"}
      /\ timer = "fired" => aborted /\ pc \in {"fetching", "streaming"}
      /\ aborted /\ pc \in {"fetching", "streaming"} => ENABLED HtmlAborted /\ ~ENABLED HtmlRead
      /\ aborted /\ pc \notin {"fetching", "streaming"} =>
           pc = "responded" /\ status = 502 /\ doc = NoDoc /\ calls = 0
      /\ fetches > 0 /\ pc \notin {"fetching", "streaming"} => timer = "cleared"

C5_Witness ==
    /\ route = "reader"
    /\ aborted
    /\ reads > 0
    /\ pc = "responded"
    /\ status = 502
    /\ timer = "cleared"

\* C6: the PDF download enforces the 10 MiB ceiling twice: a Content-Length above
\* it fails the extraction before any chunk is read, and the bytes buffered from
\* the stream never exceed it (the chunk that crosses it fails the extraction);
\* either failure is a 502 and the decoder is never called.
C6_PdfCeilingTwice ==
    route = "pdf" =>
      /\ Buffered <= MAX_PDF_BYTES
      /\ ( /\ IsOk(upstream.status)
           /\ upstream.contentLength.kind = "number"
           /\ upstream.contentLength.n > MAX_PDF_BYTES ) =>
             /\ pc = "responded" /\ status = 502 /\ message = PdfTooBigText
             /\ reads = 0 /\ chunks = <<>> /\ decodes = 0
      /\ message = PdfTooBigText =>
           /\ pc = "responded" /\ status = 502 /\ decodes = 0
           /\ reads > 0 => total > MAX_PDF_BYTES /\ Buffered < total
      /\ decodes > 0 => decodes = 1 /\ total = Buffered /\ total <= MAX_PDF_BYTES

C6_Witness ==
    /\ route = "pdf"
    /\ upstream.contentLength = [kind |-> "number", n |-> 500000]
    /\ message = PdfTooBigText
    /\ total = MAX_PDF_BYTES + 1
    /\ Buffered = MAX_PDF_BYTES
    /\ decodes = 0

\* C7: a successful PDF extraction returns at most 60,000 characters of text,
\* truncated exactly when the normalized decoded text is longer than that, and
\* bytes equal to the bytes streamed; a PDF without extractable text is a success
\* with empty text and truncated = false.
C7_PdfResultShape ==
    route = "pdf" /\ pc = "responded" /\ decodes > 0 /\ message # <<"I", "n", "v", "a", "l", "i", "d", " ", "P", "D", "F", " ", "s", "t", "r", "u", "c", "t", "u", "r", "e">> =>
      LET normalized == trimRuns(replaceCrLf(extracted))
      IN  /\ status = 200
          /\ runsLength(payload.text) <= MAX_PDF_TEXT_CHARS
          /\ payload.truncated <=> runsLength(normalized) > MAX_PDF_TEXT_CHARS
          /\ payload.truncated => runsLength(payload.text) = MAX_PDF_TEXT_CHARS
          /\ ~payload.truncated => payload.text = normalized
          /\ payload.bytes = total
          /\ payload.bytes = Buffered
          /\ runsLength(extracted) = 0 => payload.text = <<>> /\ ~payload.truncated

C7_Witness ==
    /\ route = "pdf"
    /\ status = 200
    /\ extracted = <<>>
    /\ payload = [text |-> <<>>, truncated |-> FALSE, bytes |-> 5242880]

\* the place of every node in document order
DocumentPosition(nodes) ==
    LET order == preorder(nodes, 1)
    IN  [id \in 1..Len(nodes) |-> CHOOSE k \in 1..Len(order) : order[k] = id]

\* the candidate that input index of call number call stands for
CandidateOf(call, index) == candidates[TRANSLATION_BATCH_SIZE * (call - 1) + index]

\* writes to node id, in the order made
WritesTo(id) == SelectSeq(writeLog, LAMBDA e : e.node = id)

Results(resp) == IF resp.translations.def THEN Len(resp.translations.v) ELSE 0

\* C9: for a batch of any size from 1 to 30, a response that does not hold
\* exactly one result per input fails the batch: the request ends with an error
\* and no node of that batch is written.
C9_CountMismatchFailsBatch ==
    ( /\ answer.kind = "batch"
      /\ IsOk(answer.response.status)
      /\ Results(answer.response) # answer.inputs ) =>
        /\ pc = "responded"
        /\ status = 502
        /\ \A k \in 1..Len(writeLog) : writeLog[k].call # answer.call

\* the result for input j is missing or empty
EmptyResult(resp, j) == ~resp.translations.v[j].def \/ resp.translations.v[j].v = <<>>

\* C10: in a successful response (one result per input) a run whose result is
\* empty or absent keeps its node's text and does not fail the request, for every
\* batch size, one run included; the other runs of the batch are written.
\* Not failing: the handler goes on to its next call to the service, or, when
\* this was its last call, answers 200.
C10_EmptyResultLeavesNode ==
    ( /\ answer.kind = "batch"
      /\ IsOk(answer.response.status)
      /\ Results(answer.response) = answer.inputs
      /\ \E j \in 1..answer.inputs : EmptyResult(answer.response, j) ) =>
        /\ calls = answer.call => pc = "responded" /\ status = 200
        /\ \A j \in 1..answer.inputs :
             LET written == \E k \in 1..Len(writeLog) :
                               writeLog[k].call = answer.call /\ writeLog[k].index = j
             IN  written <=> ~EmptyResult(answer.response, j)

\* every character of s is white space
allSpace(s) == \A k \in 1..Len(s) : isSpace(s[k])

\* the text the service returned for input index of call number call: the
\* response itself for the call answered last, the honest translation before it
ResultFor(call, index) ==
    IF call = answer.call /\ answer.response.translations.def
       /\ index <= Len(answer.response.translations.v)
       /\ answer.response.translations.v[index].def
    THEN answer.response.translations.v[index].v
    ELSE Translated(call, index)

\* C11: a translated node's text is its original leading white space, the trimmed
\* translation of its core and its original trailing white space; the three parts
\* of the split always give back the original text, and the core sent to the
\* service has no outer white space.
C11_WriteKeepsOuterWhitespace ==
    doc # NoDoc =>
      /\ \A j \in 1..Len(candidates) :
           LET c == candidates[j]
               original == doc[c.node].data
           IN  /\ c.leading \o c.text \o c.trailing = original
               /\ allSpace(c.leading) /\ allSpace(c.trailing)
               /\ c.text # <<>>
               /\ ~isSpace(c.text[1]) /\ ~isSpace(c.text[Len(c.text)])
      /\ pc = "translating" =>
           \A j \in 1..Len(inflight) : inflight[j] # <<>> /\ trim(inflight[j]) = inflight[j]
      /\ \A id \in 1..Len(data) :
           LET w == WritesTo(id)
               e == w[Len(w)]
               original == splitOuterWhitespace(doc[id].data)
           IN  w # <<>> =>
                 data[id] = original.leading \o trim(ResultFor(e.call, e.index))
                              \o original.trailing

C11_Witness ==
    /\ doc = DocMixed
    /\ pc = "responded"
    /\ status = 200
    /\ data[3] = <<" ", " ", "t", "1", "_", "1", " ">>

\* the elements the specification calls blocked
BlockedElements == {"script", "style", "noscript", "code", "pre", "kbd", "samp"}

\* node id lies below an element named in BlockedElements, at any depth
hasBlockedAncestor(nodes, id) ==
    \E a \in 1..Len(nodes) :
        /\ a # id
        /\ nodes[a].type # "text"
        /\ nodes[a].name \in BlockedElements
        /\ InSeq(id, preorder(nodes, a))

\* a text node the specification excludes from translation
Untranslatable(nodes, id) ==
    /\ nodes[id].type = "text"
    /\ \/ hasBlockedAncestor(nodes, id)
       \/ trim(nodes[id].data) = <<>>
       \/ isLikelyUrlText(trim(nodes[id].data))

\* C12: no text run is collected from, and so no text is sent for, a text node
\* that lies below a script, style, noscript, code, pre, kbd or samp element, is
\* empty after trimming or starts with a URL prefix; every such node keeps its
\* original text.
C12_SkippedNodesUntouched ==
    doc # NoDoc =>
      \A id \in 1..Len(doc) :
          Untranslatable(doc, id) =>
            /\ \A j \in 1..Len(candidates) : candidates[j].node # id
            /\ data[id] = doc[id].data

\* C13: without the credential, a request whose source was fetched and loaded
\* ends with status 500, in the full-page and in the reader route and for every
\* document, one without any text run included; it never ends with 200.
C13_MissingKeyIs500 ==
    ~authKey /\ doc # NoDoc => pc = "responded" /\ status = 500

\* C14: with the credential present, a call the service answers with a non-2xx
\* status ends the request with 502 and a body holding that status, followed by
\* the service's message when it gave one, whatever that message says.
C14_ServiceErrorIs502 ==
    ( /\ authKey
      /\ answer.kind # "none"
      /\ ~IsOk(answer.response.status) ) =>
        /\ pc = "responded"
        /\ status = 502
        /\ includes(message, numberToString(answer.response.status))
        /\ answer.response.message.def => includes(message, answer.response.message.v)

HttpSchemes == {<<"h", "t", "t", "p">>, <<"h", "t", "t", "p", "s">>}

\* the scheme of a value, lower-cased; empty when it has none
schemeOf(value) == toLowerCase(SubSeq(value, 1, schemeEnd(value) - 1))

\* the values for which the specification wants null
WantsNull(value) ==
    LET t == trim(value)
    IN  \/ t = <<>>
        \/ t[1] = "#"
        \/ hasScheme(t) /\ schemeOf(t) \notin HttpSchemes

\* C15: toAbsoluteUrl gives null for an empty or fragment-only value and for
\* every scheme other than http/https (mailto:, tel:, javascript:, ftp:, data:);
\* a protocol-relative value gets the https: scheme; every other value, an
\* http/https URL with a scheme in any letter case included, resolves against
\* the base.
C15_ToAbsoluteUrlCases ==
    uFn = "toAbsoluteUrl" /\ uPc = "done" =>
      LET t == trim(uValue)
      IN  IF WantsNull(uValue) THEN uResult = Null
          ELSE IF startsWith(t, <<"/", "/">>)
               THEN uResult.kind = "string" /\ startsWith(uResult.v, <<"h", "t", "t", "p", "s", ":", "/", "/">>)
          ELSE /\ uResult.kind = "string"
               /\ startsWith(uResult.v, <<"h", "t", "t", "p", ":", "/", "/">>) \/ startsWith(uResult.v, <<"h", "t", "t", "p", "s", ":", "/", "/">>)
               /\ hasScheme(t) => startsWith(toLowerCase(uResult.v), toLowerCase(SubSeq(t, 1, schemeEnd(t))))
               /\ ~hasScheme(t) => startsWith(uResult.v, origin(uBase)) /\ endsWith(uResult.v, t)

\* the value of the url parameter of an internal URL: the text after "?url="
urlParam(s) ==
    IF \E k \in 1..Len(s) : SubSeq(s, k, k + 4) = <<"?", "u", "r", "l", "=">>
    THEN LET k == CHOOSE j \in 1..Len(s) : SubSeq(s, j, j + 4) = <<"?", "u", "r", "l", "=">>
         IN  Str(SubSeq(s, k + 5, Len(s)))
    ELSE Undefined

\* hrefs the specification leaves alone
KeepsHref(href) ==
    LET t == toLowerCase(trim(href))
    IN  \/ t = <<>> \/ t[1] = "#"
        \/ startsWith(t, <<"m", "a", "i", "l", "t", "o", ":">>) \/ startsWith(t, <<"t", "e", "l", ":">>)
        \/ startsWith(t, <<"j", "a", "v", "a", "s", "c", "r", "i", "p", "t", ":">>)

\* C16: an anchor href that resolves to an absolute http(s) URL becomes an
\* internal navigation URL whose url parameter is that absolute URL, encoded
\* (/next on https://example.com/ gives one for https://example.com/next);
\* an empty, fragment-only, mailto:, tel: or javascript: href stays as it is.
C16_NavigationLinkEncodesAbsolute ==
    uFn = "rewriteNavigationLink" /\ uPc = "done" =>
      LET absolute == toAbsoluteUrl(uBase, trim(uValue))
      IN  /\ KeepsHref(uValue) => uResult = Url(uValue)
          /\ ~KeepsHref(uValue) /\ absolute.kind = "string" =>
               /\ uResult.kind = "string"
               /\ uResult.v[1] = "/"
               /\ urlParam(uResult.v) = Str(encodeURIComponent(absolute.v))
          /\ ( /\ uBase = Base(<<"h", "t", "t", "p", "s">>, <<"e", "x", "a", "m", "p", "l", "e", ".", "c", "o", "m">>, <<"/">>)
               /\ uValue = <<"/", "n", "e", "x", "t">> ) =>
                 urlParam(uResult.v) = Str(<<"h", "t", "t", "p", "s", "%", "3", "A", "%", "2", "F", "%", "2", "F", "e", "x", "a", "m", "p", "l", "e", ".", "c", "o", "m", "%", "2", "F", "n", "e", "x", "t">>)

\* the white-space separated tokens of a srcset candidate
tokensOf(candidate) == IF trim(candidate) = <<>> THEN <<>> ELSE splitSpaces(trim(candidate))

\* C17: rewriteSrcset gives, for a srcset of n comma-separated candidates, n
\* comma-separated candidates in the same order joined with ", "; in each only
\* the URL token changes, to the proxy URL of its absolute form, the descriptors
\* stay, and a candidate whose URL does not resolve is passed through.
C17_SrcsetKeepsCandidates ==
    uFn = "rewriteSrcset" /\ uPc = "done" =>
      LET ins == split(uValue, ",")
          outs == split(uResult.v, ",")
      IN  /\ uResult.kind = "string"
          /\ Len(outs) = Len(ins)
          /\ \A k \in 2..Len(outs) : outs[k] # <<>> /\ outs[k][1] = " "
          /\ \A k \in 1..Len(outs) : outs[k] = (IF k = 1 THEN <<>> ELSE <<" ">>) \o join(tokensOf(outs[k]), <<" ">>)
          /\ \A k \in 1..Len(ins) :
               LET in == tokensOf(ins[k])
                   out == tokensOf(outs[k])
                   absolute == toAbsoluteUrl(uBase, in[1])
               IN  /\ Len(out) = Len(in)
                   /\ in # <<>> =>
                        /\ Tail(out) = Tail(in)
                        /\ out[1] = IF absolute.kind = "string"
                                    THEN <<"/", "a", "p", "i", "/", "p", "r", "o", "x", "y", "?", "u", "r", "l", "=">> \o encodeURIComponent(absolute.v)
                                    ELSE in[1]

\* what the specification gives for the import of reference x
importOnce(css, x, cssUrl) ==
    LET abs == toAbsoluteUrl(cssUrl, x)
    IN  IF abs.kind = "string"
        THEN Url(<<"@", "i", "m", "p", "o", "r", "t", " ", "u", "r", "l", "(", "'", "/", "a", "p", "i", "/", "p", "r", "o", "x", "y", "?", "u", "r", "l", "=">> \o encodeURIComponent(abs.v) \o <<"'", ")", ";">>)
        ELSE Url(css)

\* C18: rewriteCssUrls turns @import url(X) and @import "X" into the same text,
\* an import of the proxy URL of X resolved once against the stylesheet's URL,
\* and leaves an import whose reference does not resolve exactly as written.
C18_ImportFormsAgree ==
    uFn = "rewriteCssUrls" /\ uPc = "done" =>
      \A x \in CssRefs :
        uValue \in {importUrl(x), importQuoted(x)} => uResult = importOnce(uValue, x, uBase)

\* the matched elements of the structural selectors that have visible text
TextMatches(body) ==
    {k \in 1..Len(structuralMatches(body)) : collapsedText(structuralMatches(body)[k]) # <<>>}

\* the non-empty paragraph texts of the pruned body, in document order
NonEmptyParagraphs(body) == SelectSeq(paragraphTexts(body), LAMBDA t : Len(t) > 0)

\* the markup of the first n texts, a <p> each
Paragraphed(texts, n) == concat([k \in 1..Min(n, Len(texts)) |-> <<"<", "p", ">">> \o texts[k] \o <<"<", "/", "p", ">">>])

\* C19: extractReaderDocument never returns an empty contentHtml.  With no
\* structural match that has text, the content is the first 50 non-empty
\* paragraph texts of the pruned body; with none of those either, the first
\* 15000 characters of the collapsed body text as one paragraph; and the
\* placeholder paragraph when the body has no text.  A structural match with
\* text keeps both fallbacks out.
C19_ContentNeverEmpty ==
    xPc = "done" =>
      LET body == xDoc.body
          content == xResult.contentHtml
          bodyText == collapsedText(body)
          texts == NonEmptyParagraphs(body)
      IN  /\ content # <<>>
          /\ TextMatches(body) # {} =>
               \E k \in TextMatches(body) : content = html(structuralMatches(body)[k])
          /\ TextMatches(body) = {} /\ texts # <<>> =>
               content = Paragraphed(texts, MaxParagraphs)
          /\ TextMatches(body) = {} /\ texts = <<>> /\ bodyText # <<>> =>
               content = <<"<", "p", ">">> \o SubSeq(bodyText, 1, Min(Len(bodyText), MaxBodyTextChars)) \o <<"<", "/", "p", ">">>
          /\ bodyText = <<>> => content = <<"<", "p", ">", "N", "o", " ", "s", "e", " ", "p", "u", "d", "o", " ", "e", "x", "t", "r", "a", "e", "r", " ", "c", "o", "n", "t", "e", "n", "i", "d", "o", " ", "l", "e", "g", "i", "b", "l", "e", ".", "<", "/", "p", ">">>

\* a body without structural match and paragraphs whose text is cut at 15000
C19_Witness ==
    /\ xPc = "done"
    /\ TextMatches(xDoc.body) = {}
    /\ NonEmptyParagraphs(xDoc.body) = <<>>
    /\ Len(collapsedText(xDoc.body)) > MaxBodyTextChars
    /\ Len(xResult.contentHtml) = MaxBodyTextChars + 7

\* the first position in evaluation order whose collapsed text is longest
FirstLongest(body) ==
    LET matches == structuralMatches(body)
        length(k) == Len(collapsedText(matches[k]))
    IN  CHOOSE k \in 1..Len(matches) :
            /\ \A j \in 1..Len(matches) : length(j) <= length(k)
            /\ \A j \in 1..(k - 1) : length(j) < length(k)

\* C20 as the specification states it: whenever an element matches a structural
\* selector, contentHtml is the inner HTML of the first match of longest text.
C20_MatchKeepsFallbacksOut ==
    xPc = "done" /\ structuralMatches(xDoc.body) # <<>> =>
      xResult.contentHtml = html(structuralMatches(xDoc.body)[FirstLongest(xDoc.body)])

\* C20: when an element with visible text matches a structural selector,
\* contentHtml is the inner HTML of the match whose collapsed text is longest,
\* the first one in evaluation order on a tie.
C20_BestStructuralMatch ==
    xPc = "done" /\ TextMatches(xDoc.body) # {} =>
      xResult.contentHtml = html(structuralMatches(xDoc.body)[FirstLongest(xDoc.body)])

\* two matches tie for the longest text and differ in their inner HTML
C20_Witness ==
    /\ xPc = "done"
    /\ TextMatches(xDoc.body) # {}
    /\ LET matches == structuralMatches(xDoc.body)
           first == FirstLongest(xDoc.body)
       IN  \E k \in (first + 1)..Len(matches) :
              /\ Len(collapsedText(matches[k])) = Len(collapsedText(matches[first]))
              /\ html(matches[k]) # html(matches[first])
              /\ xResult.contentHtml = html(matches[first])

\* C21: sanitizeReaderHtml is idempotent: applied to its own output it returns
\* that output unchanged.
C21_SanitizeIdempotent == zPc = "twice" => zTwice = zOnce

\* the start tags of an HTML string
startTags(tokens) == SelectSeq(tokens, LAMBDA t : t.kind = "start")

\* the value is a javascript: URL for the URL parser, which drops leading and
\* trailing spaces and every tab and newline and reads the scheme in any case
isJavascriptUrl(value) ==
    startsWith(toLowerCase(trim(removeChars(value, {"\t", "\n", "\r"}))), <<"j", "a", "v", "a", "s", "c", "r", "i", "p", "t", ":">>)

\* C22: the contentHtml of a reader response is the sanitizer's output for the
\* rewritten article; it has no removed element, no element outside the tag
\* allow-list, no attribute that starts with "on" or is outside the attribute
\* allow-list, and no href or src that is a javascript: URL.
C22_ResponseContentIsSanitized ==
    zPc \in {"responded", "twice"} =>
      /\ zOnce = sanitizeReaderHtml(zArticle)
      /\ \A k \in 1..Len(startTags(zOnce)) :
           LET tag == startTags(zOnce)[k]
           IN  /\ tag.name \notin RemovedTags
               /\ tag.name \in ALLOWED_READER_TAGS
               /\ \A j \in 1..Len(tag.attrs) :
                    /\ ~startsWith(tag.attrs[j].name, <<"o", "n">>)
                    /\ tag.attrs[j].name \in ALLOWED_READER_ATTRS
                    /\ tag.attrs[j].name \in {<<"h", "r", "e", "f">>, <<"s", "r", "c">>} => ~isJavascriptUrl(tag.attrs[j].value)

\* the qualifying anchors of the page, in document order
qualifying(anchors) == SelectSeq(anchors, qualifies)

\* the highest score among the qualifying anchors of a URL
keptScore(anchors, url) ==
    LET scores == {computeScore(qualifying(anchors)[k]) : k \in {j \in 1..Len(qualifying(anchors)) : qualifying(anchors)[j].normalizedUrl = url}}
    IN  CHOOSE s \in scores : \A t \in scores : t <= s

\* the title of the first qualifying anchor of a URL that has its highest score
keptTitle(anchors, url) ==
    LET q == qualifying(anchors)
        first == CHOOSE k \in 1..Len(q) :
                   /\ q[k].normalizedUrl = url /\ computeScore(q[k]) = keptScore(anchors, url)
                   /\ \A j \in 1..(k - 1) : ~(q[j].normalizedUrl = url /\ computeScore(q[j]) = keptScore(anchors, url))
    IN  q[first].title

qualifyingUrls(anchors) == {qualifying(anchors)[k].normalizedUrl : k \in 1..Len(qualifying(anchors))}

\* C23: extractRelevantLinks returns at most 15 links with pairwise distinct
\* URLs in non-increasing order of score; each link carries the title of the
\* highest-scoring qualifying anchor of its URL (the first one on a tie); fewer
\* than 15 distinct URLs score higher than a returned one, and the result has
\* 15 links whenever that many distinct URLs qualify.
C23_RelevantLinksRanked ==
    lPc = "done" =>
      /\ Len(lLinks) = Min(MaxLinks, Cardinality(qualifyingUrls(lAnchors)))
      /\ \A i, j \in 1..Len(lLinks) : i < j =>
           /\ lLinks[i].url # lLinks[j].url
           /\ keptScore(lAnchors, lLinks[i].url) >= keptScore(lAnchors, lLinks[j].url)
      /\ \A i \in 1..Len(lLinks) :
           /\ lLinks[i].url \in qualifyingUrls(lAnchors)
           /\ lLinks[i].title = keptTitle(lAnchors, lLinks[i].url)
           /\ Cardinality({u \in qualifyingUrls(lAnchors) :
                             keptScore(lAnchors, u) > keptScore(lAnchors, lLinks[i].url)}) < MaxLinks

\* a page with more than 15 qualifying URLs, one of them repeated with equal
\* scores, was ranked and cut to 15 links
C23_Witness ==
    /\ lPc = "done"
    /\ Len(lLinks) = MaxLinks
    /\ Cardinality(qualifyingUrls(lAnchors)) > MaxLinks
    /\ \E i, j \in 1..Len(lAnchors) :
         /\ i < j /\ qualifies(lAnchors[i]) /\ qualifies(lAnchors[j])
         /\ lAnchors[i].normalizedUrl = lAnchors[j].normalizedUrl
         /\ computeScore(lAnchors[i]) = computeScore(lAnchors[j])
         /\ \E k \in 1..Len(lLinks) : lLinks[k].url = lAnchors[i].normalizedUrl

\* the request passed the proxy's validation and its fetch resolved
Forwarded == route = "proxy" /\ pc = "responded" /\ upstream # NoUpstream

C25_NothingRetried ==
    [][ /\ fetches' \in {fetches, fetches + 1}
        /\ fetches' <= 1
        /\ calls' \in {calls, calls + 1}
        /\ calls' = calls + 1 =>
             \/ pc' = "translating" /\ (calls = 0 \/ batchStart' > batchStart)
             \/ pc' = "titling" /\ pc # "titling"
        /\ pc' = "responded" /\ status' >= 400 =>
             calls' = calls /\ fetches' = fetches /\ message' # <<>>
        /\ pc = "responded" => fetches' = fetches /\ calls' = calls
      ]_vars

\* the second translation call of a request failed and the request ended with
\* the error after one fetch and two calls
C25_Witness ==
    /\ pc = "responded"
    /\ status = 502
    /\ fetches = 1
    /\ calls = 2
    /\ answer.call = 2

\* C26: within one request no text node has two TextRuns among the candidates,
\* and no text node is written back twice.
C26_EachNodeOnce ==
    /\ \A i, j \in 1..Len(candidates) : i # j => candidates[i].node # candidates[j].node
    /\ \A i, j \in 1..Len(writeLog) : i # j => writeLog[i].node # writeLog[j].node

\* the translation failed at the batch that starts at batchStart: the request
\* ended with an error while the loop still had candidates to submit
BatchFailed ==
    /\ route \in PageRoutes /\ pc = "responded" /\ status >= 400
    /\ doc # NoDoc /\ batchStart < Len(candidates)

\* C27: when translation fails at a batch, that batch was the last call (no
\* call at all without the service key); the
\* nodes of the batches before it hold the translation written for them, the
\* nodes of that batch and of the later ones hold their original text, and the
\* response is an error with the failure's message.
C27_FailureKeepsEarlierBatches ==
    BatchFailed =>
      /\ calls = (IF authKey THEN (batchStart \div TRANSLATION_BATCH_SIZE) + 1 ELSE 0)
      /\ \A k \in 1..Len(candidates) :
           LET entry == candidates[k]
               call == ((k - 1) \div TRANSLATION_BATCH_SIZE) + 1
           IN  IF k > batchStart
               THEN /\ data[entry.node] = doc[entry.node].data
                    /\ \A w \in 1..Len(writeLog) : writeLog[w].node # entry.node
               ELSE \/ data[entry.node] = doc[entry.node].data
                       /\ \A w \in 1..Len(writeLog) : writeLog[w].node # entry.node
                    \/ \E w \in 1..Len(writeLog) :
                         /\ writeLog[w].node = entry.node /\ writeLog[w].call = call
                         /\ data[entry.node] # doc[entry.node].data
      /\ status \in {500, 502}
      /\ message # <<"h", "t", "m", "l">> /\ message # <<"j", "s", "o", "n">>

\* the second batch of a page failed after the first one was written back
C27_Witness ==
    /\ BatchFailed
    /\ route = "translate"
    /\ batchStart = TRANSLATION_BATCH_SIZE
    /\ Len(writeLog) > 0
    /\ data[candidates[1].node] # doc[candidates[1].node].data
    /\ data[candidates[batchStart + 1].node] = doc[candidates[batchStart + 1].node].data

\* the host that served the response the fetch resolved with
servedBy == IF upstream.redirectedTo.def THEN upstream.redirectedTo.v ELSE ParseUrl(rawUrl.v).hostname

\* C28: the host guard (and the proxy's allow-list) is evaluated on the host of
\* the requested URL, before the fetch: a fetch was started only for a requested
\* host that passed, and once the fetch has started no response is the guard's
\* refusal, whatever host the redirects led to.
C28_GuardOnRequestedHostOnly ==
    LET p == ParseUrl(rawUrl.v)
    IN  fetches > 0 =>
          /\ rawUrl.def /\ p.ok
          /\ ~HostGuard(route, p.hostname)
          /\ route = "proxy" => isAllowedHost(p.hostname)
          /\ message \notin {BlockedText, NotAllowedText}

\* a page request that passed the guard got its body from a host the guard blocks
C28_Witness ==
    /\ route = "translate"
    /\ pc = "fetched"
    /\ ~HostGuard(route, ParseUrl(rawUrl.v).hostname)
    /\ upstream.redirectedTo.def
    /\ HostGuard(route, servedBy)
    /\ Buffered > 0

\* the asset proxy returned a body served by a host that is blocked and outside
\* the allow-list
ProxyServedBlockedHost ==
    /\ route = "proxy"
    /\ pc = "responded"
    /\ status = 200
    /\ message = UpstreamBody
    /\ upstream.redirectedTo.def
    /\ isBlockedHost(servedBy)
    /\ ~isAllowedHost(servedBy)

\* C29: rewriting the URLs of a document never fails the request: no attribute
\* value makes toAbsoluteUrl throw, so the reader route always gets past its
\* rewriting loops to the response.
C29_RewritingNeverFails == zPc # "failed"

\* C30: in the translated-page client the result and error states never hold
\* the response of a superseded request (one whose URL was replaced, or whose
\* component unmounted, before its response arrived); error and result are never
\* both set; and once the latest request has completed while mounted, the state
\* shown is the one its response produced.
C30_LatestRequestWins ==
    LET last == Len(cRequests)
    IN  /\ cResult.from \in {0, last}
        /\ cError.from \in {0, last}
        /\ \A i \in 1..last :
             (cResult.from = i \/ cError.from = i) => cRequests[i].pc = "done" /\ cRequests[i].apiUrl = cApiUrl
        /\ ~(cError.text # "" /\ cResult.value # "null")
        /\ (last > 0 /\ cRequests[last].pc = "done" /\ ~cRequests[last].cancelled) =>
             IF cRequests[last].response = "json"
             THEN cResult = [from |-> last, value |-> "parsed"] /\ cError = NoError
             ELSE cError.from = last /\ cError.text # "" /\ cResult = NullResult

\* the response of a superseded request arrived after the URL changed and was
\* dropped; the latest request then completed and its result is shown
C30_Witness ==
    /\ cMounted
    /\ Len(cRequests) = 2
    /\ cRequests[1].cancelled /\ cRequests[1].pc = "done" /\ cRequests[1].response = "failure"
    /\ cRequests[2].pc = "done" /\ cRequests[2].response = "json"
    /\ cResult = [from |-> 2, value |-> "parsed"]
    /\ cError = NoError

=============================================================================
